---- MODULE Spec2Model ----
(***************************************************************************)
(* Model of the EPROC scraper: the scheduler and cycle orchestrator of     *)
(* src/src/index.ts, the store access layer and the detail / document      *)
(* extraction of src/src/services/database.ts (which also holds            *)
(* storage.ts and scraper.ts), and the browser handle of                   *)
(* src/src/services/browser.ts.                                            *)
(*                                                                         *)
(* Every await of the source is a step of the model.  A step that calls    *)
(* the portal, the browser or the store draws its outcome from the         *)
(* outcomes that call can have (a result, or a thrown / returned error).   *)
(***************************************************************************)
EXTENDS Integers, Sequences, FiniteSets, TLC

\* ---------------------------------------------------------------- bounds
MaxProcessos == 2        \* case identifiers are 1..MaxProcessos
MaxCiclos    == 3
MaxTabWaits  == 2        \* armed waitForNewTab promises nobody awaits
MaxLista     == 3        \* rows of an extracted list drawn as an input
MaxEventos   == 3        \* event rows of a detail page drawn as an input
MaxSecret    == 3        \* characters of a TOTP secret drawn as an input
MaxEventosDocs == 2      \* event rows with attachments drawn as an input

\* ------------------------------------------------------ program constants
MAX_PROCESSES_PER_CYCLE == 1   \* env.MAX_PROCESSES_PER_CYCLE, any positive integer
LoginMaxRetries == 1           \* withRetry(..., { maxRetries: 1 })

Processos == 1..MaxProcessos

VARIABLES
  \* process and scheduler (index.ts)
  proc,            \* "running" | "exit0" | "exit1"
  shutdown,        \* gracefulShutdown is waiting for the active cycle
  isRunning,       \* the in-progress flag
  scheduledTask,   \* "null" | "running" | "stopped": the cron task handle
  cronTasks,       \* number of cron tasks that still fire
  recessoTimeout,  \* "null" | "pending" | "inactive": the dormant timer handle
  recessoTimers,   \* number of dormant timers that will still fire
  \* the active executarCiclo invocation
  caller,          \* "none" | "main" | "cron" | "recesso"
  pc,              \* position of the active invocation
  activeCycles,    \* invocations past the guard that have not ended
  nCiclos,         \* invocations past the guard so far
  ciclo,           \* the local variables of executarCiclo
  det,             \* the local variables of extrairDetalhesProcesso
  \* browser (browser.ts, scraper.ts)
  browser,         \* a browser session is open
  tabWaits,        \* armed waitForNewTab timers whose promise nobody awaits
  orfaos,          \* such timers armed on a browser that is closed by now
  \* the store
  runs,            \* scraper_runs: sequence of statuses
  dbProcessos,     \* processos_abertos: set of case identifiers
  dbLado,          \* lado_cliente / cliente_nome per case, "null" when unset
  dbEventos,       \* eventos_processo: per case the sequence of event numbers
  dbDocs,          \* documentos_processo: the set of storage paths recorded
  \* the portal
  portal,          \* cases on the open-deadline list
  paginas,         \* per case, the event rows its detail page shows
  ladoLista,       \* per case, the lado_cliente the list parser infers
  falhas,          \* kinds of external failure that occur in this run
  \* history
  lastStep,        \* name of the last step taken
  lastReturn,      \* how the last ended invocation ended for its caller
  baixados,        \* storage paths whose bytes were fetched from the portal
  rebaixados       \* storage paths whose bytes were fetched more than once

schedVars == <<proc, shutdown, isRunning, scheduledTask, cronTasks,
               recessoTimeout, recessoTimers>>
handles == <<scheduledTask, cronTasks, recessoTimeout, recessoTimers>>
cycleVars == <<caller, pc, activeCycles, nCiclos, ciclo, det>>
browserVars == <<browser, tabWaits, orfaos>>
storeVars == <<runs, dbProcessos, dbLado, dbEventos, dbDocs>>
envVars == <<portal, paginas, ladoLista, falhas>>
histVars == <<baixados, rebaixados>>
vars == <<schedVars, cycleVars, browserVars, storeVars, envVars,
          lastStep, lastReturn, histVars>>

\* The local variables of executarCiclo before its first statement.
CicloInicial ==
  [ runId               |-> 0,      \* index in runs of this cycle's RunRecord
    tentativa           |-> 0,      \* login attempts made
    totpSecret          |-> <<>>,   \* env.EPROC_TOTP_SECRET, as characters
    secret              |-> <<>>,   \* generateTOTP: the sanitized secret
    page                |-> [erros |-> <<>>, url |-> {}],
                                    \* what the tab shows when login checks it
    listPageIsPage      |-> TRUE,   \* listPage === page
    allPages            |-> <<>>,   \* the tabs of the browser, by what they show
    newTabPromise       |-> "none", \* the promise waitForNewTab returned
    timeoutId           |-> FALSE,  \* the timer of waitForNewTab is running
    targetcreated       |-> "none", \* a created page target not yet announced
    perdido             |-> FALSE,  \* a page target was announced to no listener
    newPage             |-> 0,      \* index in allPages of the tab returned
    tabela              |-> <<>>,   \* the rows of the table on the list page
    processosEproc      |-> <<>>,   \* the extracted case list, a row each
    dbMap               |-> {},     \* keys of the map getAllProcessosAbertos gave
    enviados            |-> <<>>,   \* the rows insertProcessosAbertos upserts
    inserted            |-> <<>>,   \* syncProcessos: inserted, <<>> before it is set
    deleted             |-> <<>>,   \* syncProcessos: deleted, <<>> before it is set
    runCounts           |-> <<>>,   \* the counts written to the cycle's RunRecord
    processosComEventos |-> {},     \* the loaded skip-set
    maxPorCiclo         |-> MAX_PROCESSES_PER_CYCLE,
                                    \* the limit passed to extrairDetalhesProcessos
    candidatos          |-> <<>>,   \* extracted cases outside the skip-set
    ordenados           |-> <<>>,   \* the cases selected for the detail pass
    idx                 |-> 0,      \* loop index of the running pass
    resultadoTodos      |-> FALSE,  \* resultado.todosProcessados
    processosSemLado    |-> <<>>,   \* result of getProcessosSemClienteNome
    todosProcessados    |-> FALSE,  \* the value executarCiclo returns
    erro                |-> FALSE ] \* the catch block was entered

\* The local variables of extrairDetalhesProcesso before its first statement.
DetInicial ==
  [ cnj          |-> 0,      \* processo.numero_cnj
    detailIsPage |-> TRUE,   \* detailPage === page
    todosEventos |-> <<>>,   \* the parsed events
    anteriores   |-> <<>>,   \* the stored events syncEventosProcesso found
    lado         |-> "null", \* the side the representatives show
    eventosDocs  |-> <<>>,   \* processarDocumentosProcesso: eventosRelevantes
    ei           |-> 0,      \* index of the event in the download loop
    di           |-> 0,      \* index of the attachment in the download loop
    docPage      |-> FALSE,  \* baixarDocumento: docPage is not null
    docAberta    |-> FALSE,  \* the tab of docPage is open
    abasDoc      |-> 0,      \* number of open download tabs
    buffer       |-> "none", \* responseBuffer: "none", "vazio" or "bytes"
    retorno      |-> "none" ]  \* what baixarDocumento returns

\* ------------------------------------------------------------- helpers
\* Outcomes of an external call of kind k: success, and failure when the
\* run is one in which that kind of failure occurs.
Resultados(k) == IF k \in falhas THEN {TRUE, FALSE} ELSE {TRUE}

RECURSIVE SeqDe(_)
\* The elements of a set of integers in ascending order (table order).
SeqDe(S) ==
  IF S = {} THEN <<>>
  ELSE LET m == CHOOSE x \in S : \A y \in S : x <= y
       IN <<m>> \o SeqDe(S \ {m})

Elems(s) == {s[k] : k \in 1..Len(s)}

\* The case identifiers of a list of rows.
Cnjs(lista) == {lista[k].cnj : k \in 1..Len(lista)}

\* The row the list parser makes of a table row of case c: the identifier
\* and the list-derived columns, of which evento_prazo stands for all.
Linha(c, eventoPrazo) == [cnj |-> c, evento_prazo |-> eventoPrazo]

Min(a, b) == IF a <= b THEN a ELSE b

\* ------------------------------------------------------------ scheduler
\* agendarProximoCiclo without the scheduledTask.stop() of its first lines.
AgendarSemParar(todos, task, crons, timeout, timers) ==
  LET timers1 == IF timeout = "pending" THEN timers - 1 ELSE timers
  IN IF todos
     THEN /\ scheduledTask' = "null"
          /\ cronTasks' = crons
          /\ recessoTimeout' = "pending"
          /\ recessoTimers' = timers1 + 1
     ELSE /\ scheduledTask' = "running"
          /\ cronTasks' = crons + 1
          /\ recessoTimeout' = "null"
          /\ recessoTimers' = timers1

\* function agendarProximoCiclo, applied to the handles (task, timeout)
\* and the live trigger counts (crons, timers) it finds.
AgendarProximoCiclo(todos, task, crons, timeout, timers) ==
  LET crons1  == IF task = "running" THEN crons - 1 ELSE crons
      timers1 == IF timeout = "pending" THEN timers - 1 ELSE timers
  IN IF todos
     THEN /\ scheduledTask' = "null"
          /\ cronTasks' = crons1
          /\ recessoTimeout' = "pending"
          /\ recessoTimers' = timers1 + 1
     ELSE /\ scheduledTask' = "running"
          /\ cronTasks' = crons1 + 1
          /\ recessoTimeout' = "null"
          /\ recessoTimers' = timers1

\* What the caller c does with the value executarCiclo returned.
Retornar(c, todos, task, crons, timeout, timers) ==
  /\ lastReturn' = IF todos THEN "true" ELSE "false"
  /\ IF c = "cron" /\ ~todos
     THEN /\ scheduledTask' = task
          /\ cronTasks' = crons
          /\ recessoTimeout' = timeout
          /\ recessoTimers' = timers
     ELSE AgendarProximoCiclo(todos, task, crons, timeout, timers)

\* What happens when executarCiclo rejects: main().catch exits with code 1;
\* the timer callback has no handler, so the rejection ends the process;
\* the cron callback's rejection ends the process or is dropped by the
\* cron library, depending on the library version installed.
Propagar(c) ==
  /\ lastReturn' = "throw"
  /\ proc' \in IF c = "cron" THEN {"running", "exit1"} ELSE {"exit1"}

\* executarCiclo without its guard.
PularNunca == FALSE

\* The guard of executarCiclo: the call is skipped.
Pular == isRunning

\* executarCiclo up to its first await, called by c.
ExecutarCiclo(c, task, crons, timeout, timers) ==
  IF Pular
  THEN /\ Retornar(c, FALSE, task, crons, timeout, timers)
       /\ lastStep' = "pular"
       /\ UNCHANGED <<proc, shutdown, isRunning, cycleVars, browserVars,
                      storeVars, envVars, histVars>>
  ELSE /\ nCiclos < MaxCiclos
       /\ isRunning' = TRUE
       /\ ciclo' = CicloInicial
       /\ det' = DetInicial
       /\ caller' = c
       /\ pc' = "createScraperRun"
       /\ activeCycles' = activeCycles + 1
       /\ nCiclos' = nCiclos + 1
       /\ scheduledTask' = task
       /\ cronTasks' = crons
       /\ recessoTimeout' = timeout
       /\ recessoTimers' = timers
       /\ lastStep' = "iniciar"
       /\ UNCHANGED <<proc, shutdown, browserVars, storeVars, envVars,
                      lastReturn, histVars>>

\* main: the first cycle, run at once.
Main ==
  /\ proc = "running"
  /\ pc = "inicio"
  /\ ExecutarCiclo("main", scheduledTask, cronTasks, recessoTimeout,
                   recessoTimers)

\* The cron task fires.
CronFire ==
  /\ proc = "running"
  /\ cronTasks > 0
  /\ ExecutarCiclo("cron", scheduledTask, cronTasks, recessoTimeout,
                   recessoTimers)

\* The dormant timer fires.
RecessoFire ==
  /\ proc = "running"
  /\ recessoTimers > 0
  /\ ExecutarCiclo("recesso", scheduledTask, cronTasks, "inactive",
                   recessoTimers - 1)

\* function gracefulShutdown.
GracefulShutdown ==
  /\ proc = "running"
  /\ "sinal" \in falhas
  /\ ~shutdown
  /\ scheduledTask' = IF scheduledTask = "null" THEN "null" ELSE "stopped"
  /\ cronTasks' = IF scheduledTask = "running" THEN cronTasks - 1
                  ELSE cronTasks
  /\ recessoTimeout' = IF recessoTimeout = "null" THEN "null" ELSE "inactive"
  /\ recessoTimers' = IF recessoTimeout = "pending" THEN recessoTimers - 1
                      ELSE recessoTimers
  /\ IF isRunning
     THEN shutdown' = TRUE /\ proc' = proc
     ELSE shutdown' = shutdown /\ proc' = "exit0"
  /\ lastStep' = "gracefulShutdown"
  /\ UNCHANGED <<isRunning, cycleVars, browserVars, storeVars, envVars,
                 lastReturn, histVars>>

\* The 1 s poll installed by gracefulShutdown.
CheckInterval ==
  /\ proc = "running"
  /\ shutdown
  /\ ~isRunning
  /\ proc' = "exit0"
  /\ lastStep' = "checkInterval"
  /\ UNCHANGED <<shutdown, isRunning, handles, cycleVars, browserVars,
                 storeVars, envVars, lastReturn, histVars>>

\* The 2 min safety timeout installed by gracefulShutdown.
ForceExit ==
  /\ proc = "running"
  /\ shutdown
  /\ proc' = "exit1"
  /\ lastStep' = "forceExit"
  /\ UNCHANGED <<shutdown, isRunning, handles, cycleVars, browserVars,
                 storeVars, envVars, lastReturn, histVars>>

\* ------------------------------------------------- executarCiclo, steps
\* A step of the active invocation: the scheduler is left alone.
Passo(nome) ==
  /\ proc = "running"
  /\ lastStep' = nome
  /\ UNCHANGED <<schedVars, caller, activeCycles, nCiclos, envVars,
                 lastReturn>>

\* The invocation ends by throwing out of executarCiclo: the flag keeps
\* the value it has, and the local variables are gone.
Lancar(nome) ==
  /\ proc = "running"
  /\ lastStep' = nome
  /\ Propagar(caller)
  /\ pc' = "idle"
  /\ caller' = "none"
  /\ activeCycles' = activeCycles - 1
  /\ ciclo' = CicloInicial
  /\ det' = DetInicial
  /\ UNCHANGED <<shutdown, isRunning, handles, nCiclos, envVars>>

\* createScraperRun, awaited before the try block.
CreateScraperRun(ok) ==
  /\ pc = "createScraperRun"
  /\ IF ok
     THEN /\ Passo("createScraperRun")
          /\ runs' = Append(runs, "running")
          /\ ciclo' = [ciclo EXCEPT !.runId = Len(runs) + 1]
          /\ pc' = "launchBrowser"
          /\ UNCHANGED <<det, browserVars, dbProcessos, dbLado, dbEventos,
                         dbDocs, histVars>>
     ELSE /\ Lancar("createScraperRunErro")
          /\ UNCHANGED <<browserVars, storeVars, histVars>>

\* launchBrowser: reuses the module's browser when there is one.
LaunchBrowser(ok) ==
  /\ pc = "launchBrowser"
  /\ Passo("launchBrowser")
  /\ IF ok
     THEN browser' = TRUE /\ pc' = "newPage"
     ELSE browser' = browser /\ pc' = "catch"
  /\ UNCHANGED <<ciclo, det, tabWaits, orfaos, storeVars, histVars>>

NewPage(ok) ==
  /\ pc = "newPage"
  /\ Passo("newPage")
  /\ pc' = IF ok THEN "login" ELSE "catch"
  /\ UNCHANGED <<ciclo, det, browserVars, storeVars, histVars>>

\* String.prototype.toUpperCase on a character.
ToUpperCase(c) ==
  CASE c = "a" -> "A"
    [] c = "z" -> "Z"
    [] OTHER -> c

\* function sanitizeTotpSecret: the characters matching [\s_-] are
\* removed and the rest is put in upper case.
SanitizeTotpSecret(secret) ==
  LET clean == SelectSeq(secret, LAMBDA c : c \notin {" ", "\t", "_", "-"})
  IN [k \in 1..Len(clean) |-> ToUpperCase(clean[k])]

\* generateTOTP, called by login when the identity provider asks for the
\* one-time code: the sanitized secret goes to the code generator.
GenerateTOTP ==
  /\ pc = "totp"
  /\ Passo("generateTOTP")
  /\ ciclo' = [ciclo EXCEPT !.secret = SanitizeTotpSecret(ciclo.totpSecret)]
  /\ pc' = "login"
  /\ UNCHANGED <<det, browserVars, storeVars, histVars>>

\* The substrings of the final URL by which login recognises that the tab
\* is still on the login form or on the identity provider.
MarcasDeLogin == {"keycloak", "usuario_login_form", "acao=principal"}

\* The text contents an element matching the error selector can have:
\* none, blanks only, a message.
Textos == {"", " ", "msg"}

\* String.prototype.trim on those texts.
Trim(t) == IF t = " " THEN "" ELSE t

\* The tab at the end of the login flow: erros holds the text contents of
\* the elements matching the error selector, in document order; url holds
\* the marks the final URL contains.
Telas ==
  {[erros |-> e, url |-> u] :
     e \in UNION {[1..n -> Textos] : n \in 0..2},
     u \in SUBSET MarcasDeLogin}

\* The portal's page after a login that worked.
TelaOk == [erros |-> <<>>, url |-> {}]

\* The identity provider's page with its error message.
TelaErro == [erros |-> <<"msg">>, url |-> {"keycloak"}]

\* The screens a login attempt can end on: any at all under "tela"; else
\* the portal's page, and the identity provider's error page under "login".
TelasDeLogin ==
  IF "tela" \in falhas THEN Telas
  ELSE {TelaOk} \cup (IF "login" \in falhas THEN {TelaErro} ELSE {})

\* login, step 8: errorText is the trimmed text of the first element the
\* error selector matches, or null when there is none or it is empty.
ErrorText(tela) ==
  IF tela.erros = <<>> \/ Trim(tela.erros[1]) = "" THEN "null"
  ELSE Trim(tela.erros[1])

\* login, step 8: isStillLogin.
IsStillLogin(tela) == tela.url \cap MarcasDeLogin # {}

\* login, step 8: TRUE when the attempt returns true, FALSE when it throws.
VerificarResultado(tela) ==
  IF ErrorText(tela) # "null" THEN FALSE
  ELSE ~IsStillLogin(tela)

\* login retrying once more than withRetry does.
LoginTresVezes(tela) ==
  LET ok == VerificarResultado(tela)
  IN /\ pc = "login"
     /\ Passo(IF ok THEN "loginOk" ELSE "loginFalhou")
     /\ ciclo' = [ciclo EXCEPT !.tentativa = @ + 1, !.page = tela]
     /\ pc' = IF ok THEN "painel"
              ELSE IF ciclo.tentativa + 1 > LoginMaxRetries + 1 THEN "catch"
              ELSE "login"
     /\ UNCHANGED <<det, browserVars, storeVars, histVars>>

\* login: one attempt of the function withRetry wraps, ending on the
\* screen tela; a failed attempt is retried while attempt <= maxRetries,
\* then the error is thrown.
Login(tela) ==
  LET ok == VerificarResultado(tela)
  IN /\ pc = "login"
     /\ Passo(IF ok THEN "loginOk" ELSE "loginFalhou")
     /\ ciclo' = [ciclo EXCEPT !.tentativa = @ + 1, !.page = tela]
     /\ pc' = IF ok THEN "painel"
              ELSE IF ciclo.tentativa + 1 > LoginMaxRetries THEN "catch"
              ELSE "login"
     /\ UNCHANGED <<det, browserVars, storeVars, histVars>>

\* navegarParaPainelAdvogado and navegarParaListaPrazos.  res is
\*   "novaAba"  the click opened the list in a new tab,
\*   "mesmaAba" no tab appeared and the current tab shows the list,
\*   "semLink"  the link was not found: the function throws after it armed
\*              waitForNewTab, whose promise nobody awaits,
\*   "erro"     the panel link was not found (nothing armed).
NavegarParaListaPrazos(res) ==
  /\ pc = "painel"
  /\ Passo("navegarParaListaPrazos")
  /\ res \in {"novaAba"}
            \cup (IF "semAba" \in falhas THEN {"mesmaAba"} ELSE {})
            \cup (IF "lista" \in falhas THEN {"semLink", "erro"} ELSE {})
  /\ res = "semLink" => tabWaits + orfaos < MaxTabWaits
  /\ tabWaits' = CASE res = "semLink" -> tabWaits + 1
                   [] res = "novaAba" -> 0
                   [] OTHER -> tabWaits
  /\ ciclo' = [ciclo EXCEPT !.listPageIsPage = (res # "novaAba")]
  /\ pc' = IF res \in {"novaAba", "mesmaAba"} THEN "extrairLista" ELSE "catch"
  /\ UNCHANGED <<det, browser, orfaos, storeVars, histVars>>

\* navegarParaListaPrazos, await by await.  The tab `page` is the last of
\* the tabs open when the function is called.
\*
\* waitForNewTab is called and not awaited: it runs up to its
\* await browser.pages() and hands back its promise.
WaitForNewTab ==
  /\ pc = "navLista"
  /\ Passo("waitForNewTab")
  /\ ciclo' = [ciclo EXCEPT !.newTabPromise = "pages",
                            !.newPage = Len(ciclo.allPages)]
  /\ pc' = "clicarLista"
  /\ UNCHANGED <<det, browserVars, storeVars, histVars>>

\* waitForNewTab after browser.pages() has resolved: the timer is started
\* and the targetcreated listener is registered.
ArmarListener ==
  /\ ciclo.newTabPromise = "pages"
  /\ Passo("armarListener")
  /\ ciclo' = [ciclo EXCEPT !.newTabPromise = "pending", !.timeoutId = TRUE]
  /\ UNCHANGED <<pc, det, browserVars, storeVars, histVars>>

\* page.evaluate of the click.  res is
\*   "novaAba"  the link opened a tab, which shows `mostra`; the browser
\*              will announce its target, whose page() yields `alvo`,
\*   "mesmaAba" the link loaded the list in the tab itself,
\*   "nada"     the link was clicked and nothing was opened,
\*   "semLink"  no link was found: the function throws.
ClicarLista(res, mostra, alvo) ==
  /\ pc = "clicarLista"
  /\ Passo("clicarLista")
  /\ res \in {"novaAba"}
            \cup (IF "semAba" \in falhas THEN {"mesmaAba", "nada"} ELSE {})
            \cup (IF "lista" \in falhas THEN {"semLink"} ELSE {})
  /\ mostra \in {"lista", "outra"}
  /\ alvo \in {"page", "null"}
  /\ res # "novaAba" => (mostra = "lista" /\ alvo = "page")
  /\ ciclo' =
       CASE res = "novaAba" ->
              [ciclo EXCEPT !.allPages = Append(@, mostra),
                            !.targetcreated = alvo]
         [] res = "mesmaAba" ->
              [ciclo EXCEPT !.allPages[ciclo.newPage] = "lista"]
         [] OTHER -> ciclo
  /\ pc' = IF res = "semLink" THEN "catch" ELSE "aguardarAba"
  /\ UNCHANGED <<det, browserVars, storeVars, histVars>>

\* The browser announces the created page target.  Without a listener the
\* announcement is lost; the listener clears the timer, awaits
\* target.page() and resolves the promise when that gave a page.
TargetCreated ==
  /\ ciclo.targetcreated # "none"
  /\ Passo("targetcreated")
  /\ ciclo' =
       IF ciclo.newTabPromise = "pages"
       THEN [ciclo EXCEPT !.targetcreated = "none", !.perdido = TRUE]
       ELSE [ciclo EXCEPT
               !.targetcreated = "none",
               !.timeoutId = FALSE,
               !.newTabPromise =
                  IF @ = "pending" /\ ciclo.targetcreated = "page"
                  THEN "resolved" ELSE @]
  /\ UNCHANGED <<pc, det, browserVars, storeVars, histVars>>

\* The timer of waitForNewTab fires.
TimeoutNovaAba ==
  /\ ciclo.timeoutId
  /\ Passo("timeoutNovaAba")
  /\ ciclo' = [ciclo EXCEPT !.timeoutId = FALSE,
                            !.newTabPromise =
                               IF @ = "pending" THEN "rejected" ELSE @]
  /\ UNCHANGED <<pc, det, browserVars, storeVars, histVars>>

\* await newTabPromise and what follows it: the new tab when the promise
\* resolved; when it rejected, the tab itself if its URL is the list's,
\* else the last of the open tabs if there are several, else the throw.
AguardarAba ==
  /\ pc = "aguardarAba"
  /\ ciclo.newTabPromise \in {"resolved", "rejected"}
  /\ Passo("aguardarAba")
  /\ LET page == ciclo.newPage
         n == Len(ciclo.allPages)
     IN IF ciclo.newTabPromise = "resolved"
        THEN /\ ciclo' = [ciclo EXCEPT !.newPage = n,
                                       !.listPageIsPage = FALSE]
             /\ pc' = "extrairLista"
        ELSE IF ciclo.allPages[page] = "lista"
        THEN /\ ciclo' = [ciclo EXCEPT !.listPageIsPage = TRUE]
             /\ pc' = "extrairLista"
        ELSE IF n > 1
        THEN /\ ciclo' = [ciclo EXCEPT !.newPage = n,
                                       !.listPageIsPage = (n = page)]
             /\ pc' = "extrairLista"
        ELSE /\ ciclo' = [ciclo EXCEPT !.newPage = 0]
             /\ pc' = "catch"
  /\ UNCHANGED <<det, browserVars, storeVars, histVars>>

\* ------------------------------------------------------ parseListaPrazos
\* A text is a sequence of characters; Rep(n, c) is c written n times.
Rep(n, c) == [k \in 1..n |-> c]

EhDigito(c) == c \in {"0", "1", "2", "3", "4", "5", "6", "7", "8", "9"}

\* The regular expression of parseListaPrazos,
\*   \d{7}-\d{2}\.\d{4}\.\d\.\d{2}\.\d{4}
\* matches the text s at position i.
Casa(s, i) ==
  /\ i + 24 <= Len(s)
  /\ \A k \in 0..24 :
       IF k = 7 THEN s[i + k] = "-"
       ELSE IF k \in {10, 15, 17, 20} THEN s[i + k] = "."
       ELSE EhDigito(s[i + k])

\* processoCell.match(...)[1], or the empty text when nothing matches:
\* the leftmost match.
NumeroCnj(s) ==
  LET I == {i \in 1..Len(s) : Casa(s, i)}
  IN IF I = {} THEN <<>>
     ELSE LET i == CHOOSE x \in I : \A y \in I : x <= y
          IN SubSeq(s, i, i + 24)

\* parseListaPrazos that does not skip the rows without a number.
ParseSemDescartar(rows) ==
  LET validas == SelectSeq(rows, LAMBDA r : r.cells >= 7)
  IN [k \in 1..Len(validas) |-> Linha(NumeroCnj(validas[k].processo), 1)]

\* function parseListaPrazos on the rows of the table: a row is its number
\* of cells and the text of its case cell.
ParseListaPrazos(rows) ==
  LET validas == SelectSeq(rows, LAMBDA r :
                   r.cells >= 7 /\ NumeroCnj(r.processo) # <<>>)
  IN [k \in 1..Len(validas) |-> Linha(NumeroCnj(validas[k].processo), 1)]

\* extrairListaPrazos on a list page whose table is ciclo.tabela.
ExtrairListaDaTabela ==
  /\ pc = "parseLista"
  /\ Passo("parseListaPrazos")
  /\ ciclo' = [ciclo EXCEPT !.processosEproc = ParseListaPrazos(ciclo.tabela)]
  /\ pc' = "getAll"
  /\ UNCHANGED <<det, browserVars, storeVars, histVars>>

\* extrairListaPrazos: the wait for the table may time out, and the rows
\* present are parsed all the same.  When the tabs are tracked, a tab that
\* does not show the list has no row with a docket number.
ExtrairListaPrazos(carregou) ==
  /\ pc = "extrairLista"
  /\ Passo("extrairListaPrazos")
  /\ ciclo' = [ciclo EXCEPT !.processosEproc =
                   IF /\ carregou
                      /\ ciclo.allPages # <<>> =>
                           ciclo.allPages[ciclo.newPage] = "lista"
                   THEN [k \in 1..Cardinality(portal) |->
                           Linha(SeqDe(portal)[k], 1)]
                   ELSE <<>>]
  /\ pc' = "getAll"
  /\ UNCHANGED <<det, browserVars, storeVars, histVars>>

GetAllProcessosAbertos(ok) ==
  /\ pc = "getAll"
  /\ Passo("getAllProcessosAbertos")
  /\ pc' = IF ok THEN "upsert" ELSE "catch"
  /\ ciclo' = [ciclo EXCEPT !.dbMap = IF ok THEN dbProcessos ELSE {}]
  /\ UNCHANGED <<det, browserVars, storeVars, histVars>>

\* compareProcessos with removidos taken against the new rows instead of
\* all the extracted rows.
CompareContraNovos(eprocList, dbMap) ==
  LET novos == SelectSeq(eprocList, LAMBDA p : p.cnj \notin dbMap)
  IN [ novos |-> novos, removidos |-> dbMap \ Cnjs(novos) ]

\* function compareProcessos, on the extracted rows and the keys of the
\* stored map.
CompareProcessos(eprocList, dbMap) ==
  [ novos     |-> SelectSeq(eprocList, LAMBDA p : p.cnj \notin dbMap),
    removidos |-> dbMap \ Cnjs(eprocList) ]

RECURSIVE MapSetPrimeiro(_, _)
\* A map whose set keeps the value a key already has.
MapSetPrimeiro(m, p) ==
  IF m = <<>> THEN <<p>>
  ELSE IF m[1].cnj = p.cnj THEN m
  ELSE <<m[1]>> \o MapSetPrimeiro(Tail(m), p)

RECURSIVE MapSet(_, _)
\* Map.prototype.set on a map kept as the sequence of its entries in
\* insertion order: a key already present keeps its place and gets the
\* new value.
MapSet(m, p) ==
  IF m = <<>> THEN <<p>>
  ELSE IF m[1].cnj = p.cnj THEN <<p>> \o Tail(m)
  ELSE <<m[1]>> \o MapSet(Tail(m), p)

RECURSIVE UniqueProcessos(_)
\* insertProcessosAbertos: uniqueMap filled in input order, then its values.
UniqueProcessos(processos) ==
  IF processos = <<>> THEN <<>>
  ELSE MapSet(UniqueProcessos(SubSeq(processos, 1, Len(processos) - 1)),
              processos[Len(processos)])

\* insertProcessosAbertos with lado_cliente among the upserted columns.
InsertComLado(ok) ==
  /\ pc = "upsert"
  /\ Passo("insertProcessosAbertos")
  /\ ciclo.processosEproc = <<>> => ok
  /\ ciclo' = [ciclo EXCEPT
                !.enviados = UniqueProcessos(ciclo.processosEproc),
                !.inserted = IF ok
                             THEN <<Len(UniqueProcessos(ciclo.processosEproc))>>
                             ELSE @]
  /\ IF ok
     THEN /\ dbProcessos' = dbProcessos
                              \cup Cnjs(UniqueProcessos(ciclo.processosEproc))
          /\ dbLado' = [c \in Processos |->
                          IF c \in Cnjs(ciclo.processosEproc)
                          THEN ladoLista[c] ELSE dbLado[c]]
          /\ pc' = "delete"
     ELSE /\ UNCHANGED <<dbProcessos, dbLado>>
          /\ pc' = "catch"
  /\ UNCHANGED <<det, browserVars, runs, dbEventos, dbDocs, histVars>>

\* insertProcessosAbertos whose failure does not stop syncProcessos.
InsertSemLancar(ok) ==
  /\ pc = "upsert"
  /\ Passo("insertProcessosAbertos")
  /\ ciclo.processosEproc = <<>> => ok
  /\ ciclo' = [ciclo EXCEPT
                !.enviados = UniqueProcessos(ciclo.processosEproc),
                !.inserted = IF ok
                             THEN <<Len(UniqueProcessos(ciclo.processosEproc))>>
                             ELSE @]
  /\ dbProcessos' = IF ok
                    THEN dbProcessos
                           \cup Cnjs(UniqueProcessos(ciclo.processosEproc))
                    ELSE dbProcessos
  /\ pc' = "delete"
  /\ UNCHANGED <<det, browserVars, runs, dbLado, dbEventos, dbDocs,
                 histVars>>

\* insertProcessosAbertos, called by syncProcessos: the upsert writes the
\* list-derived columns only, so a stored lado_cliente is kept and a new
\* row gets none.
InsertProcessosAbertos(ok) ==
  /\ pc = "upsert"
  /\ Passo("insertProcessosAbertos")
  /\ ciclo.processosEproc = <<>> => ok
  /\ ciclo' = [ciclo EXCEPT
                !.enviados = UniqueProcessos(ciclo.processosEproc),
                !.inserted = IF ok
                             THEN <<Len(UniqueProcessos(ciclo.processosEproc))>>
                             ELSE @]
  /\ IF ok
     THEN /\ dbProcessos' = dbProcessos
                              \cup Cnjs(UniqueProcessos(ciclo.processosEproc))
          /\ pc' = "delete"
     ELSE /\ dbProcessos' = dbProcessos
          /\ pc' = "catch"
  /\ UNCHANGED <<det, browserVars, runs, dbLado, dbEventos, dbDocs,
                 histVars>>

\* syncProcessos: the identifiers compareProcessos reports as removed.
Removidos == CompareProcessos(ciclo.processosEproc, ciclo.dbMap).removidos

\* deleteProcessosAbertos, called by syncProcessos; the store deletes the
\* events and documents of a deleted case with it.  With nothing to
\* delete the store is not called.
DeleteProcessosAbertos(ok) ==
  /\ pc = "delete"
  /\ Passo("deleteProcessosAbertos")
  /\ Removidos = {} => ok
  /\ IF ok
     THEN /\ dbProcessos' = dbProcessos \ Removidos
          /\ dbLado' = [c \in Processos |->
                          IF c \in Removidos THEN "null" ELSE dbLado[c]]
          /\ dbEventos' = [c \in Processos |->
                             IF c \in Removidos THEN <<>> ELSE dbEventos[c]]
          /\ dbDocs' = {d \in dbDocs : d[1] \notin Removidos}
          /\ ciclo' = [ciclo EXCEPT !.deleted = <<Cardinality(Removidos)>>]
          /\ pc' = "getComEventos"
     ELSE /\ UNCHANGED <<dbProcessos, dbLado, dbEventos, dbDocs, ciclo>>
          /\ pc' = "catch"
  /\ UNCHANGED <<det, browserVars, runs, histVars>>

\* ----------------------------------------------------- event correlation
\* A nullable number is <<>> (null) or <<n>>.  An event row is a record
\*   [num: nullable, prazo: BOOLEAN, ref: nullable, docs: Seq(names)].
OuZero(x) == IF x = <<>> THEN 0 ELSE x[1]

\* extrairDetalhesProcesso: eventoPrazo?.evento_referenciado ?? 0, where
\* eventoPrazo is the first event flagged is_prazo_aberto.
EventoBase(evs) ==
  LET flagged == SelectSeq(evs, LAMBDA e : e.prazo)
  IN IF flagged = <<>> THEN 0 ELSE OuZero(flagged[1].ref)

\* The filter of extrairDetalhesProcesso with > in the place of >=.
EventosDepoisDaBase(evs) ==
  LET base == EventoBase(evs)
  IN IF base > 0
     THEN SelectSeq(evs, LAMBDA e : OuZero(e.num) > base)
     ELSE evs

\* extrairDetalhesProcesso: the events it persists.
EventosRelevantes(evs) ==
  LET base == EventoBase(evs)
  IN IF base > 0
     THEN SelectSeq(evs, LAMBDA e : OuZero(e.num) >= base)
     ELSE evs

RECURSIVE MinDe(_)
MinDe(s) ==
  IF Len(s) = 1 THEN s[1] ELSE Min(s[1], MinDe(Tail(s)))

RECURSIVE Inserir(_, _)
\* Insert e into the sorted sequence s after every element not greater.
Inserir(e, s) ==
  IF s = <<>> THEN <<e>>
  ELSE IF OuZero(e.num) < OuZero(s[1].num) THEN <<e>> \o s
  ELSE <<s[1]>> \o Inserir(e, Tail(s))

RECURSIVE Ordenar(_)
\* Array.prototype.sort by (evento_numero ?? 0), which is stable.
Ordenar(s) ==
  IF s = <<>> THEN <<>>
  ELSE Inserir(s[Len(s)], Ordenar(SubSeq(s, 1, Len(s) - 1)))

\* identificarEventosComDocumentos taking the reference of the first open
\* deadline instead of the smallest one.
IdentificarPeloPrimeiro(evs) ==
  LET prazosAbertos == SelectSeq(evs, LAMBDA e : e.prazo /\ e.ref # <<>>)
  IN IF evs = <<>> \/ prazosAbertos = <<>> THEN <<>>
     ELSE LET eventoRef == prazosAbertos[1].ref[1]
          IN Ordenar(SelectSeq(evs, LAMBDA e :
                       OuZero(e.num) >= eventoRef /\ e.docs # <<>>))

\* function identificarEventosComDocumentos.
IdentificarEventosComDocumentos(evs) ==
  LET prazosAbertos == SelectSeq(evs, LAMBDA e : e.prazo /\ e.ref # <<>>)
  IN IF evs = <<>> \/ prazosAbertos = <<>> THEN <<>>
     ELSE LET refs == [k \in 1..Len(prazosAbertos) |-> prazosAbertos[k].ref[1]]
              eventoRef == MinDe(refs)
          IN Ordenar(SelectSeq(evs, LAMBDA e :
                       OuZero(e.num) >= eventoRef /\ e.docs # <<>>))

\* The characters the name sanitization of gerarStoragePath keeps:
\* [a-zA-Z0-9._-].
EhLetra(c) ==
  c \in {"a", "b", "c", "d", "e", "f", "g", "h", "i", "j", "k", "l", "m",
         "n", "o", "p", "q", "r", "s", "t", "u", "v", "w", "x", "y", "z",
         "A", "B", "C", "D", "E", "F", "G", "H", "I", "J", "K", "L", "M",
         "N", "O", "P", "Q", "R", "S", "T", "U", "V", "W", "X", "Y", "Z"}

\* nomeDocumento.replace(/[^a-zA-Z0-9._-]/g, '_') on a name given as a
\* sequence of characters.
Sanitizar(nome) ==
  [k \in 1..Len(nome) |->
     IF EhLetra(nome[k]) \/ EhDigito(nome[k]) \/ nome[k] \in {".", "_", "-"}
     THEN nome[k] ELSE "_"]

\* function gerarStoragePath: the path is made of the digits of the case
\* identifier (a case identifier is kept as it is), the event number and
\* the sanitized document name.
GerarStoragePath(cnj, eventoNumero, nome) ==
  <<cnj, eventoNumero, Sanitizar(nome)>>

\* doc.nome + '.pdf', the name processarDocumentosProcesso hands over.
ComPdf(nome) == nome \o <<".", "p", "d", "f">>

\* ------------------------------------ extrairDetalhesProcessos, the loop
\* extrairDetalhesProcessos up to its loop: filter by the skip-set and
\* select at most maxPorCiclo candidates.
ExtrairDetalhesProcessos ==
  /\ pc = "extrairDetalhes"
  /\ Passo("extrairDetalhesProcessos")
  /\ LET candidatos == SelectSeq(ciclo.processosEproc,
                         LAMBDA p : p.cnj \notin ciclo.processosComEventos)
         ordenados == SubSeq(candidatos, 1,
                        Min(ciclo.maxPorCiclo, Len(candidatos)))
     IN IF candidatos = <<>>
        THEN /\ ciclo' = [ciclo EXCEPT !.candidatos = <<>>,
                                       !.ordenados = <<>>,
                                       !.resultadoTodos = TRUE]
             /\ pc' = "getSemLado"
        ELSE /\ ciclo' = [ciclo EXCEPT !.candidatos = candidatos,
                                       !.ordenados = ordenados,
                                       !.idx = 1]
             /\ pc' = "navegarDetalhes"
  /\ UNCHANGED <<det, browserVars, storeVars, histVars>>

\* extrairDetalhesProcesso has returned (a result, or the empty result of
\* its catch block): the loop of extrairDetalhesProcessos goes on, and
\* after the last selected case reports whether candidates remain.
ProximoProcesso ==
  IF ciclo.idx < Len(ciclo.ordenados)
  THEN /\ ciclo' = [ciclo EXCEPT !.idx = @ + 1]
       /\ pc' = "navegarDetalhes"
  ELSE /\ ciclo' = [ciclo EXCEPT !.resultadoTodos =
                      (Len(ciclo.candidatos) - Len(ciclo.ordenados) = 0)]
       /\ pc' = "getSemLado"

\* navegarParaDetalhesProcesso: arms waitForNewTab, then clicks the link.
\*   "novaAba"  the click opened a tab: every armed wait sees the target
\*              created and clears its timer,
\*   "mesmaAba" the wait timed out and the function continues on the tab,
\*   "semLink"  the link was not found: the function throws, and the wait
\*              it armed stays armed with nobody awaiting it.
NavegarParaDetalhesProcesso(res) ==
  /\ pc = "navegarDetalhes"
  /\ Passo("navegarParaDetalhesProcesso")
  /\ res \in {"novaAba"}
            \cup (IF "semAba" \in falhas THEN {"mesmaAba"} ELSE {})
            \cup (IF "semLink" \in falhas THEN {"semLink"} ELSE {})
  /\ res = "semLink" => tabWaits + orfaos < MaxTabWaits
  /\ tabWaits' = CASE res = "semLink" -> tabWaits + 1
                   [] res = "novaAba" -> 0
                   [] OTHER -> tabWaits
  /\ det' = [DetInicial EXCEPT !.cnj = ciclo.ordenados[ciclo.idx].cnj,
                               !.detailIsPage = (res # "novaAba")]
  /\ IF res = "semLink"
     THEN ProximoProcesso
     ELSE pc' = "parseEventos" /\ ciclo' = ciclo
  /\ UNCHANGED <<browser, orfaos, storeVars, histVars>>

\* parseEventosProcesso, then the filter of the events to persist.
ParseEventosProcesso(ok) ==
  /\ pc = "parseEventos"
  /\ Passo("parseEventosProcesso")
  /\ IF ok
     THEN /\ det' = [det EXCEPT !.todosEventos = paginas[det.cnj]]
          /\ pc' = IF EventosRelevantes(paginas[det.cnj]) # <<>>
                   THEN "syncDelete" ELSE "detectarLado"
          /\ ciclo' = ciclo
     ELSE /\ det' = det
          /\ ProximoProcesso
  /\ UNCHANGED <<browserVars, storeVars, histVars>>

\* syncEventosProcesso, first half: delete the stored events of the case;
\* a failure is logged and the function goes on.
SyncEventosDelete(ok) ==
  /\ pc = "syncDelete"
  /\ Passo("syncEventosDelete")
  /\ dbEventos' = IF ok THEN [dbEventos EXCEPT ![det.cnj] = <<>>]
                  ELSE dbEventos
  /\ det' = [det EXCEPT !.anteriores = dbEventos[det.cnj]]
  /\ pc' = "syncInsert"
  /\ UNCHANGED <<ciclo, browserVars, runs, dbProcessos, dbLado, dbDocs,
                 histVars>>

\* syncEventosProcesso, second half: insert the events; a failure throws.
SyncEventosInsert(ok) ==
  /\ pc = "syncInsert"
  /\ Passo("syncEventosInsert")
  /\ IF ok
     THEN /\ LET evs == EventosRelevantes(det.todosEventos)
             IN dbEventos' = [dbEventos EXCEPT ![det.cnj] =
                    @ \o [k \in 1..Len(evs) |-> evs[k].num]]
          /\ pc' = "detectarLado"
          /\ ciclo' = ciclo
     ELSE /\ dbEventos' = dbEventos
          /\ ProximoProcesso
  /\ UNCHANGED <<det, browserVars, runs, dbProcessos, dbLado, dbDocs,
                 histVars>>

\* extrairDetalhesProcesso: when the parsed list row carries no
\* lado_cliente, parseDetalhesProcesso reads the representatives and the
\* advocate is looked up on each side.  res is the side found, "nenhum",
\* or "erro" when parseDetalhesProcesso throws.
DetectarLado(res) ==
  /\ pc = "detectarLado"
  /\ Passo("detectarLado")
  /\ IF ladoLista[det.cnj] # "null"
     THEN /\ res = "nenhum"
          /\ pc' = "documentos"
          /\ UNCHANGED <<ciclo, det>>
     ELSE /\ res \in {"requerente", "requerido", "nenhum"}
                     \cup (IF "parse" \in falhas THEN {"erro"} ELSE {})
          /\ CASE res = "erro" -> ProximoProcesso /\ det' = det
               [] res = "nenhum" ->
                    pc' = "documentos" /\ UNCHANGED <<ciclo, det>>
               [] OTHER ->
                    /\ pc' = "updateLado"
                    /\ det' = [det EXCEPT !.lado = res]
                    /\ ciclo' = ciclo
  /\ UNCHANGED <<browserVars, storeVars, histVars>>

\* updateLadoCliente: a failure throws.
UpdateLadoCliente(ok) ==
  /\ pc = "updateLado"
  /\ Passo("updateLadoCliente")
  /\ IF ok
     THEN /\ dbLado' = IF det.cnj \in dbProcessos
                       THEN [dbLado EXCEPT ![det.cnj] = det.lado]
                       ELSE dbLado
          /\ pc' = "documentos"
          /\ ciclo' = ciclo
     ELSE /\ dbLado' = dbLado
          /\ ProximoProcesso
  /\ UNCHANGED <<det, browserVars, runs, dbProcessos, dbEventos, dbDocs,
                 histVars>>

\* ------------------------------------------- processarDocumentosProcesso
\* The attachment the download loop is at, and its storage path.
EventoAtual == det.eventosDocs[det.ei]
PathAtual ==
  GerarStoragePath(det.cnj, OuZero(EventoAtual.num),
                   ComPdf(EventoAtual.docs[det.di]))

\* The download loop goes to the next attachment, the next event, or ends.
ProximoDocumento ==
  IF det.di < Len(EventoAtual.docs)
  THEN det' = [det EXCEPT !.di = @ + 1] /\ pc' = "jaBaixado"
  ELSE IF det.ei < Len(det.eventosDocs)
  THEN det' = [det EXCEPT !.ei = @ + 1, !.di = 1] /\ pc' = "jaBaixado"
  ELSE det' = det /\ pc' = "closeDetail"

\* extrairDetalhesProcesso calls processarDocumentosProcesso when events
\* were parsed; the function returns 0 when no event is relevant.
ProcessarDocumentosProcesso ==
  /\ pc = "documentos"
  /\ Passo("processarDocumentosProcesso")
  /\ LET rel == IdentificarEventosComDocumentos(det.todosEventos)
     IN IF rel = <<>>
        THEN det' = det /\ pc' = "closeDetail"
        ELSE /\ det' = [det EXCEPT !.eventosDocs = rel, !.ei = 1, !.di = 1]
             /\ pc' = "jaBaixado"
  /\ UNCHANGED <<ciclo, browserVars, storeVars, histVars>>

\* function documentoJaBaixado: a store error counts as "not downloaded".
JaBaixado(ok, path) == ok /\ path \in dbDocs

\* The already-downloaded check of the loop.
DocumentoJaBaixado(ok) ==
  /\ pc = "jaBaixado"
  /\ Passo("documentoJaBaixado")
  /\ IF JaBaixado(ok, PathAtual)
     THEN ProximoDocumento
     ELSE det' = det /\ pc' = "baixar"
  /\ UNCHANGED <<ciclo, browserVars, storeVars, histVars>>

\* baixarDocumento: opens a tab (a created page target clears the timer
\* of every armed wait), fetches, closes the tab; null when nothing was
\* captured.
BaixarDocumento(ok) ==
  /\ pc = "baixar"
  /\ Passo(IF ok THEN "baixarDocumento" ELSE "baixarDocumentoNull")
  /\ tabWaits' = 0
  /\ IF ok
     THEN /\ baixados' = baixados \cup {PathAtual}
          /\ rebaixados' = IF PathAtual \in baixados
                           THEN rebaixados \cup {PathAtual} ELSE rebaixados
          /\ det' = det
          /\ pc' = "upload"
     ELSE /\ UNCHANGED histVars
          /\ ProximoDocumento
  /\ UNCHANGED <<ciclo, browser, orfaos, storeVars>>

\* baixarDocumento, await by await.
\*
\* browser.newPage(): the tab of the download; a throw goes to the catch
\* block with docPage null.
BaixarNewPage(ok) ==
  /\ pc = "baixar"
  /\ Passo("baixarNewPage")
  /\ IF ok
     THEN /\ det' = [det EXCEPT !.docPage = TRUE, !.docAberta = TRUE,
                                !.abasDoc = @ + 1, !.buffer = "none",
                                !.retorno = "none"]
          /\ tabWaits' = 0
          /\ pc' = "baixarCapturar"
     ELSE /\ det' = [det EXCEPT !.docPage = FALSE, !.docAberta = FALSE,
                                !.buffer = "none", !.retorno = "none"]
          /\ tabWaits' = tabWaits
          /\ pc' = "baixarCatch"
  /\ UNCHANGED <<ciclo, browser, orfaos, storeVars, histVars>>

\* cookies, setCookie, authenticate, goto, response.buffer() and pdf():
\* res is "bytes" (a non-empty buffer), "vazio" (no buffer or an empty
\* one) or "erro" (one of the awaited calls threw).
BaixarCapturar(res) ==
  /\ pc = "baixarCapturar"
  /\ Passo("baixarCapturar")
  /\ res \in {"bytes"}
            \cup (IF "download" \in falhas THEN {"vazio", "erro"} ELSE {})
  /\ IF res = "erro"
     THEN det' = det /\ pc' = "baixarCatch"
     ELSE det' = [det EXCEPT !.buffer = res] /\ pc' = "baixarFechar"
  /\ UNCHANGED <<ciclo, browserVars, storeVars, histVars>>

\* Closing a tab: page.close() rejects when the target is gone already
\* (closed or crashed) or the browser is disconnected, so that after the
\* call the tab is not open whether the call resolved or rejected.
FecharAbaDoc(d) ==
  [d EXCEPT !.docAberta = FALSE,
            !.abasDoc = IF d.docAberta THEN @ - 1 ELSE @]

\* The catch block of baixarDocumento without its docPage.close().
BaixarCatchSemFechar ==
  /\ pc = "baixarCatch"
  /\ Passo("baixarCatch")
  /\ det' = [det EXCEPT !.retorno = "null"]
  /\ pc' = "baixarRetornar"
  /\ UNCHANGED <<ciclo, browserVars, storeVars, histVars>>

\* await docPage.close(); docPage = null; then the test of the buffer.
\* A rejected close goes to the catch block with docPage still set.
BaixarFechar(ok) ==
  /\ pc = "baixarFechar"
  /\ Passo("baixarFechar")
  /\ IF ok
     THEN /\ det' = [FecharAbaDoc(det) EXCEPT
                       !.docPage = FALSE,
                       !.retorno = IF det.buffer = "bytes"
                                   THEN "buffer" ELSE "null"]
          /\ pc' = "baixarRetornar"
     ELSE /\ det' = FecharAbaDoc(det)
          /\ pc' = "baixarCatch"
  /\ UNCHANGED <<ciclo, browserVars, storeVars, histVars>>

\* The catch block: close the tab if docPage is set, a rejection of that
\* close being swallowed, and return null.
BaixarCatch ==
  /\ pc = "baixarCatch"
  /\ Passo("baixarCatch")
  /\ det' = [(IF det.docPage THEN FecharAbaDoc(det) ELSE det)
               EXCEPT !.retorno = "null"]
  /\ pc' = "baixarRetornar"
  /\ UNCHANGED <<ciclo, browserVars, storeVars, histVars>>

\* baixarDocumento returns to the loop of processarDocumentosProcesso:
\* null skips the attachment.
BaixarRetornar ==
  /\ pc = "baixarRetornar"
  /\ Passo(IF det.retorno = "buffer"
           THEN "baixarDocumento" ELSE "baixarDocumentoNull")
  /\ IF det.retorno = "buffer"
     THEN /\ baixados' = baixados \cup {PathAtual}
          /\ rebaixados' = IF PathAtual \in baixados
                           THEN rebaixados \cup {PathAtual} ELSE rebaixados
          /\ det' = det
          /\ pc' = "upload"
     ELSE /\ UNCHANGED histVars
          /\ ProximoDocumento
  /\ UNCHANGED <<ciclo, browserVars, storeVars>>

\* uploadDocumento whose error ends the loop over the attachments.
UploadAborta(ok) ==
  /\ pc = "upload"
  /\ Passo("uploadDocumento")
  /\ det' = det
  /\ pc' = IF ok THEN "saveDocumento" ELSE "closeDetail"
  /\ UNCHANGED <<ciclo, browserVars, storeVars, histVars>>

\* uploadDocumento: an error skips the attachment.
UploadDocumento(ok) ==
  /\ pc = "upload"
  /\ Passo("uploadDocumento")
  /\ IF ok
     THEN det' = det /\ pc' = "saveDocumento"
     ELSE ProximoDocumento
  /\ UNCHANGED <<ciclo, browserVars, storeVars, histVars>>

\* getSignedUrl and saveDocumento: a failed insert is logged only.
SaveDocumento(ok) ==
  /\ pc = "saveDocumento"
  /\ Passo("saveDocumento")
  /\ dbDocs' = IF ok THEN dbDocs \cup {PathAtual} ELSE dbDocs
  /\ ProximoDocumento
  /\ UNCHANGED <<ciclo, browserVars, runs, dbProcessos, dbLado, dbEventos,
                 histVars>>

\* extrairDetalhesProcesso: close the detail tab when it is not the list
\* tab; a failure is caught like any other.
CloseDetailPage(ok) ==
  /\ pc = "closeDetail"
  /\ Passo("closeDetailPage")
  /\ det.detailIsPage => ok
  /\ ProximoProcesso
  /\ UNCHANGED <<det, browserVars, storeVars, histVars>>

\* ------------------------------------------- executarCiclo, later steps
\* function getProcessosComEventos: a store error is logged and gives the
\* empty set.
ProcessosComEventos(ok) ==
  IF ok THEN {c \in Processos : dbEventos[c] # <<>>} ELSE {}

GetProcessosComEventos(ok) ==
  /\ pc = "getComEventos"
  /\ Passo("getProcessosComEventos")
  /\ ciclo' = [ciclo EXCEPT !.processosComEventos = ProcessosComEventos(ok)]
  /\ pc' = "extrairDetalhes"
  /\ UNCHANGED <<det, browserVars, storeVars, histVars>>

\* function getProcessosSemClienteNome: a store error is logged and gives
\* the empty list.
ProcessosSemClienteNome(ok) ==
  IF ok THEN SeqDe({c \in dbProcessos : dbLado[c] = "null"}) ELSE <<>>

\* executarCiclo, phase 4 up to the call of backfillLadoCliente: with no
\* case returned, todosLadosPreenchidos stays true.
GetProcessosSemClienteNome(ok) ==
  /\ pc = "getSemLado"
  /\ Passo("getProcessosSemClienteNome")
  /\ LET semLado == ProcessosSemClienteNome(ok)
     IN IF semLado = <<>>
        THEN /\ ciclo' = [ciclo EXCEPT !.processosSemLado = <<>>,
                            !.todosProcessados = ciclo.resultadoTodos]
             /\ pc' = "closeListPage"
        ELSE /\ ciclo' = [ciclo EXCEPT !.processosSemLado = semLado,
                                       !.idx = 1]
             /\ pc' = "backfill"
  /\ UNCHANGED <<det, browserVars, storeVars, histVars>>

\* backfillLadoCliente: at most maxPorCiclo of the cases handed in are
\* looked at, one per step; res is the side found, "nenhum", or "erro"
\* for a failure, which is confined to the case.  After the last one
\* todosPreenchidos tells whether every case handed in was looked at.
BackfillLadoCliente(res) ==
  /\ pc = "backfill"
  /\ Passo("backfillLadoCliente")
  /\ res \in {"requerente", "requerido", "nenhum"}
            \cup (IF "parse" \in falhas THEN {"erro"} ELSE {})
  /\ LET c == ciclo.processosSemLado[ciclo.idx]
         n == Min(MAX_PROCESSES_PER_CYCLE, Len(ciclo.processosSemLado))
     IN /\ dbLado' = IF res \in {"requerente", "requerido"}
                        /\ c \in dbProcessos
                     THEN [dbLado EXCEPT ![c] = res] ELSE dbLado
        /\ IF ciclo.idx < n
           THEN /\ ciclo' = [ciclo EXCEPT !.idx = @ + 1]
                /\ pc' = "backfill"
           ELSE /\ ciclo' = [ciclo EXCEPT !.todosProcessados =
                               ciclo.resultadoTodos
                               /\ (Len(ciclo.processosSemLado) - n = 0)]
                /\ pc' = "closeListPage"
  /\ UNCHANGED <<det, browserVars, runs, dbProcessos, dbEventos, dbDocs,
                 histVars>>

\* executarCiclo, step 9: close the list tab when it is not the first tab.
CloseListPage(ok) ==
  /\ pc = "closeListPage"
  /\ Passo("closeListPage")
  /\ ciclo.listPageIsPage => ok
  /\ pc' = IF ok THEN "updateRun" ELSE "catch"
  /\ UNCHANGED <<ciclo, det, browserVars, storeVars, histVars>>

\* function updateScraperRun: a store error is logged and the record is
\* left as it is.
UpdateScraperRun(ok, id, status) ==
  IF ok /\ id \in 1..Len(runs)
  THEN runs' = [runs EXCEPT ![id] = status]
  ELSE runs' = runs

\* executarCiclo, step 10.
UpdateRunSuccess(ok) ==
  /\ pc = "updateRun"
  /\ Passo("updateRunSuccess")
  /\ UpdateScraperRun(ok, ciclo.runId, "success")
  /\ ciclo' = [ciclo EXCEPT !.runCounts =
                  IF ok
                  THEN [processos_encontrados |-> Len(ciclo.processosEproc),
                        processos_novos |-> OuZero(ciclo.inserted),
                        processos_removidos |-> OuZero(ciclo.deleted)]
                  ELSE @]
  /\ pc' = "finally"
  /\ UNCHANGED <<det, browserVars, dbProcessos, dbLado, dbEventos,
                 dbDocs, histVars>>

\* executarCiclo, the catch block.
UpdateRunError(ok) ==
  /\ pc = "catch"
  /\ Passo("updateRunError")
  /\ UpdateScraperRun(ok, ciclo.runId, "error")
  /\ ciclo' = [ciclo EXCEPT !.erro = TRUE]
  /\ pc' = "finally"
  /\ UNCHANGED <<det, browserVars, dbProcessos, dbLado, dbEventos, dbDocs,
                 histVars>>

\* executarCiclo, the finally block and the return: closeBrowser, then
\* the flag is cleared and the caller gets todosProcessados.  When
\* closeBrowser throws the flag is not cleared.
CloseBrowser(ok) ==
  /\ pc = "finally"
  /\ ~browser => ok
  /\ IF ok
     THEN /\ proc = "running"
          /\ lastStep' = IF ciclo.erro THEN "retornarErro" ELSE "retornar"
          /\ browser' = FALSE
          /\ orfaos' = orfaos + tabWaits
          /\ tabWaits' = 0
          /\ isRunning' = FALSE
          /\ Retornar(caller, ciclo.todosProcessados, scheduledTask,
                      cronTasks, recessoTimeout, recessoTimers)
          /\ pc' = "idle"
          /\ caller' = "none"
          /\ activeCycles' = activeCycles - 1
          /\ ciclo' = CicloInicial
          /\ det' = DetInicial
          /\ UNCHANGED <<proc, shutdown, nCiclos, envVars>>
     ELSE /\ Lancar("closeBrowserErro")
          /\ UNCHANGED browserVars
  /\ UNCHANGED <<storeVars, histVars>>

\* The timer of an armed waitForNewTab fires and rejects a promise that
\* has no handler: the unhandled rejection ends the process.
TabWaitTimeout ==
  /\ proc = "running"
  /\ tabWaits + orfaos > 0
  /\ proc' = "exit1"
  /\ lastStep' = "tabWaitTimeout"
  /\ UNCHANGED <<shutdown, isRunning, handles, cycleVars, browserVars,
                 storeVars, envVars, lastReturn, histVars>>

\* ------------------------------------------------------- specifications
\* Event rows of a detail page: event 1, and event 2 flagged as open
\* deadline and referring to event 1; no attachments.
PaginaSemDocs ==
  << [num |-> <<1>>, prazo |-> FALSE, ref |-> <<>>, docs |-> <<>>],
     [num |-> <<2>>, prazo |-> TRUE, ref |-> <<1>>, docs |-> <<>>] >>

\* The state when main is about to run, with an empty store.
InitPrograma ==
  /\ proc = "running"
  /\ shutdown = FALSE
  /\ isRunning = FALSE
  /\ scheduledTask = "null"
  /\ cronTasks = 0
  /\ recessoTimeout = "null"
  /\ recessoTimers = 0
  /\ caller = "none"
  /\ pc = "inicio"
  /\ activeCycles = 0
  /\ nCiclos = 0
  /\ ciclo = CicloInicial
  /\ det = DetInicial
  /\ browser = FALSE
  /\ tabWaits = 0
  /\ orfaos = 0
  /\ runs = <<>>
  /\ dbProcessos = {}
  /\ dbLado = [c \in Processos |-> "null"]
  /\ dbEventos = [c \in Processos |-> <<>>]
  /\ dbDocs = {}
  /\ ladoLista = [c \in Processos |-> "null"]
  /\ lastStep = "init"
  /\ lastReturn = "none"
  /\ baixados = {}
  /\ rebaixados = {}

\* The failures of the scheduler specification.
FalhasSpec ==
  {"createRun", "updateRun", "login", "semLink", "closeBrowser", "sinal"}

Init ==
  /\ InitPrograma
  /\ portal = {1, 2}
  /\ paginas = [c \in Processos |-> PaginaSemDocs]
  /\ falhas = FalhasSpec

Ciclo ==
  \/ \E ok \in Resultados("createRun") : CreateScraperRun(ok)
  \/ \E ok \in Resultados("launch") : LaunchBrowser(ok)
  \/ \E ok \in Resultados("launch") : NewPage(ok)
  \/ \E tela \in TelasDeLogin : Login(tela)
  \/ \E res \in {"novaAba", "mesmaAba", "semLink", "erro"} :
        NavegarParaListaPrazos(res)
  \/ \E ok \in Resultados("tabela") : ExtrairListaPrazos(ok)
  \/ \E ok \in Resultados("store") : GetAllProcessosAbertos(ok)
  \/ \E ok \in Resultados("store") : InsertProcessosAbertos(ok)
  \/ \E ok \in Resultados("store") : DeleteProcessosAbertos(ok)
  \/ \E ok \in Resultados("leitura") : GetProcessosComEventos(ok)
  \/ ExtrairDetalhesProcessos
  \/ \E ok \in Resultados("leitura") : GetProcessosSemClienteNome(ok)
  \/ \E res \in {"requerente", "requerido", "nenhum", "erro"} :
        BackfillLadoCliente(res)
  \/ \E ok \in Resultados("closePage") : CloseListPage(ok)
  \/ \E ok \in Resultados("updateRun") : UpdateRunSuccess(ok)
  \/ \E ok \in Resultados("updateRun") : UpdateRunError(ok)
  \/ \E ok \in Resultados("closeBrowser") : CloseBrowser(ok)

Detalhes ==
  \/ \E res \in {"novaAba", "mesmaAba", "semLink"} :
        NavegarParaDetalhesProcesso(res)
  \/ \E ok \in Resultados("parse") : ParseEventosProcesso(ok)
  \/ \E ok \in Resultados("store") : SyncEventosDelete(ok)
  \/ \E ok \in Resultados("store") : SyncEventosInsert(ok)
  \/ \E res \in {"requerente", "requerido", "nenhum", "erro"} :
        DetectarLado(res)
  \/ \E ok \in Resultados("store") : UpdateLadoCliente(ok)
  \/ ProcessarDocumentosProcesso
  \/ \E ok \in Resultados("closePage") : CloseDetailPage(ok)

Documentos ==
  \/ \E ok \in Resultados("leitura") : DocumentoJaBaixado(ok)
  \/ \E ok \in Resultados("download") : BaixarDocumento(ok)
  \/ \E ok \in Resultados("upload") : UploadDocumento(ok)
  \/ \E ok \in Resultados("save") : SaveDocumento(ok)

Agendador ==
  \/ Main
  \/ CronFire
  \/ RecessoFire
  \/ GracefulShutdown
  \/ CheckInterval
  \/ ForceExit
  \/ TabWaitTimeout

Next == Agendador \/ Ciclo \/ Detalhes

\* The scheduler and the cycle, on a portal of two cases without
\* attachments, with the failures of FalhasSpec.
Spec == Init /\ [][Next]_vars

\* Event rows of a detail page whose event 1 carries two attachments.
PaginaComDocs ==
  << [num |-> <<1>>, prazo |-> FALSE, ref |-> <<>>, docs |-> <<<<"a">>, <<"b">>>>],
     [num |-> <<2>>, prazo |-> TRUE, ref |-> <<1>>, docs |-> <<>>] >>

\* The failures of the extraction specification: a store read that
\* returns an error, a tab that fails to close, a document row that is
\* not inserted.
FalhasDetalhes == {"leitura", "closePage", "save"}

InitDetalhes ==
  /\ InitPrograma
  /\ portal = {1, 2}
  /\ paginas = [c \in Processos |->
                  IF c = 1 THEN PaginaComDocs ELSE PaginaSemDocs]
  /\ falhas = FalhasDetalhes

NextDetalhes ==
  \/ Main
  \/ CronFire
  \/ RecessoFire
  \/ Ciclo
  \/ Detalhes
  \/ Documentos

\* The cycle with its detail and document passes, on a portal of two
\* cases of which the first has attachments, with the failures of
\* FalhasDetalhes.
SpecDetalhes == InitDetalhes /\ [][NextDetalhes]_vars

\* The program on a portal with one case, whose detail page has
\* attachments, in runs where store calls and downloads may fail.
InitRetomada ==
  /\ InitPrograma
  /\ portal = {1}
  /\ paginas = [c \in Processos |->
                  IF c = 1 THEN PaginaComDocs ELSE PaginaSemDocs]
  /\ falhas = {"store", "download"}

\* The cycles of a portal with one case that has attachments, where a
\* store call or a download may fail.
SpecRetomada == InitRetomada /\ [][NextDetalhes]_vars

\* The extracted lists drawn as inputs: up to MaxLista rows, a case
\* possibly on several rows with different list-derived columns.
Listas ==
  UNION {[1..n -> {Linha(c, e) : c \in Processos, e \in {1, 2}}] :
           n \in 0..MaxLista}

\* The state in which executarCiclo calls syncProcessos (index.ts 56) in
\* the first cycle: any extracted list, any stored cases with any
\* lado_cliente, any side inferred by the list parser.
InitSync ==
  /\ proc = "running"
  /\ shutdown = FALSE
  /\ isRunning = TRUE
  /\ scheduledTask = "null"
  /\ cronTasks = 0
  /\ recessoTimeout = "null"
  /\ recessoTimers = 0
  /\ caller = "main"
  /\ pc = "upsert"
  /\ activeCycles = 1
  /\ nCiclos = 1
  /\ \E lista \in Listas, stored \in SUBSET Processos :
       /\ ciclo = [CicloInicial EXCEPT !.runId = 1,
                                       !.tentativa = 1,
                                       !.listPageIsPage = FALSE,
                                       !.processosEproc = lista,
                                       !.dbMap = stored]
       /\ dbProcessos = stored
  /\ det = DetInicial
  /\ browser = TRUE
  /\ tabWaits = 0
  /\ orfaos = 0
  /\ runs = <<"running">>
  /\ dbLado \in [Processos -> {"null", "requerente", "requerido"}]
  /\ \A c \in Processos : c \notin dbProcessos => dbLado[c] = "null"
  /\ dbEventos = [c \in Processos |-> <<>>]
  /\ dbDocs = {}
  /\ portal = Cnjs(ciclo.processosEproc)
  /\ paginas = [c \in Processos |-> PaginaSemDocs]
  /\ \E l \in {"null", "requerente", "requerido"} :
       ladoLista = [c \in Processos |-> l]
  /\ falhas = {"store"}
  /\ lastStep = "getAllProcessosAbertos"
  /\ lastReturn = "none"
  /\ baixados = {}
  /\ rebaixados = {}

NextSync ==
  \/ \E ok \in Resultados("store") : InsertProcessosAbertos(ok)
  \/ \E ok \in Resultados("store") : DeleteProcessosAbertos(ok)

\* syncProcessos applied to every extracted list and stored map up to
\* the bounds.
SpecSync == InitSync /\ [][NextSync]_vars

\* A portal of one case whose detail page shows no event rows; no
\* external failure occurs.
InitSemEventos ==
  /\ InitPrograma
  /\ portal = {1}
  /\ paginas = [c \in Processos |-> <<>>]
  /\ falhas = {}

\* The steps of the cycles in which the detail pass finds the represented
\* side, so that the backfill pass has nothing to do.
NextSemEventos ==
  \/ Main
  \/ RecessoFire
  \/ CreateScraperRun(TRUE)
  \/ LaunchBrowser(TRUE)
  \/ NewPage(TRUE)
  \/ Login(TelaOk)
  \/ NavegarParaListaPrazos("novaAba")
  \/ ExtrairListaPrazos(TRUE)
  \/ GetAllProcessosAbertos(TRUE)
  \/ InsertProcessosAbertos(TRUE)
  \/ DeleteProcessosAbertos(TRUE)
  \/ GetProcessosComEventos(TRUE)
  \/ ExtrairDetalhesProcessos
  \/ NavegarParaDetalhesProcesso("novaAba")
  \/ ParseEventosProcesso(TRUE)
  \/ \E res \in {"requerente", "requerido", "nenhum"} : DetectarLado(res)
  \/ UpdateLadoCliente(TRUE)
  \/ ProcessarDocumentosProcesso
  \/ CloseDetailPage(TRUE)
  \/ GetProcessosSemClienteNome(TRUE)
  \/ CloseListPage(TRUE)
  \/ UpdateRunSuccess(TRUE)
  \/ CloseBrowser(TRUE)

\* The cycles of a run without failures in which the case never gets
\* persisted events.
SpecSemEventos == InitSemEventos /\ [][NextSemEventos]_vars

\* A portal of one case, with store reads that return an error and
\* store writes that are rejected.
InitEventos ==
  /\ InitPrograma
  /\ portal = {1}
  /\ paginas = [c \in Processos |-> PaginaSemDocs]
  /\ falhas = {"leitura", "store"}

NextEventos ==
  \/ Main
  \/ CronFire
  \/ RecessoFire
  \/ Ciclo
  \/ Detalhes

\* The cycles of a run in which the store fails now and then.
SpecEventos == InitEventos /\ [][NextEventos]_vars

\* The event rows drawn as inputs: number 1 or 2 or none; not flagged,
\* or flagged as open deadline with no reference or referring to event 1
\* or 2; with or without an attachment.
EventosPossiveis ==
  {[num |-> n, prazo |-> f[1], ref |-> f[2], docs |-> d] :
     n \in {<<>>, <<1>>, <<2>>},
     f \in {<<FALSE, <<>>>>, <<TRUE, <<>>>>, <<TRUE, <<1>>>>,
            <<TRUE, <<2>>>>},
     d \in {<<>>, <<<<"a">>>>}}

\* The detail pages drawn as inputs: up to MaxEventos rows in any order.
Paginas == UNION {[1..n -> EventosPossiveis] : n \in 0..MaxEventos}

\* The state in which extrairDetalhesProcesso has opened the detail page
\* of case 1 in the first cycle (database.ts 968), for any detail page;
\* the list row of the case names the represented side.
InitPagina ==
  /\ proc = "running"
  /\ shutdown = FALSE
  /\ isRunning = TRUE
  /\ scheduledTask = "null"
  /\ cronTasks = 0
  /\ recessoTimeout = "null"
  /\ recessoTimers = 0
  /\ caller = "main"
  /\ pc = "parseEventos"
  /\ activeCycles = 1
  /\ nCiclos = 1
  /\ ciclo = [CicloInicial EXCEPT !.runId = 1,
                                  !.tentativa = 1,
                                  !.listPageIsPage = FALSE,
                                  !.processosEproc = <<Linha(1, 1)>>,
                                  !.enviados = <<Linha(1, 1)>>,
                                  !.candidatos = <<Linha(1, 1)>>,
                                  !.ordenados = <<Linha(1, 1)>>,
                                  !.idx = 1]
  /\ det = [DetInicial EXCEPT !.cnj = 1, !.detailIsPage = FALSE]
  /\ browser = TRUE
  /\ tabWaits = 0
  /\ orfaos = 0
  /\ runs = <<"running">>
  /\ dbProcessos = {1}
  /\ dbLado = [c \in Processos |-> "null"]
  /\ dbEventos = [c \in Processos |-> <<>>]
  /\ dbDocs = {}
  /\ portal = {1}
  /\ \E pagina \in Paginas :
       paginas = [c \in Processos |-> IF c = 1 THEN pagina ELSE <<>>]
  /\ ladoLista = [c \in Processos |-> "requerente"]
  /\ falhas = {}
  /\ lastStep = "navegarParaDetalhesProcesso"
  /\ lastReturn = "none"
  /\ baixados = {}
  /\ rebaixados = {}

NextPagina ==
  \/ ParseEventosProcesso(TRUE)
  \/ SyncEventosDelete(TRUE)
  \/ SyncEventosInsert(TRUE)
  \/ DetectarLado("nenhum")
  \/ ProcessarDocumentosProcesso

\* extrairDetalhesProcesso, from the parse of the events to the selection
\* of the events whose attachments are downloaded, applied to every
\* detail page up to the bounds.
SpecPagina == InitPagina /\ [][NextPagina]_vars

\* The event rows with attachments drawn as inputs: number 1 or 2,
\* flagged as open deadline referring to event 1, one or two attachments.
EventosComDocs ==
  {[num |-> <<n>>, prazo |-> TRUE, ref |-> <<1>>, docs |-> d] :
     n \in {1, 2}, d \in {<<<<"a">>>>, <<<<"a">>, <<"b">>>>}}

PaginasComDocs == UNION {[1..n -> EventosComDocs] : n \in 1..MaxEventosDocs}

\* The state in which extrairDetalhesProcesso calls
\* processarDocumentosProcesso for case 1 (database.ts 1025), for any
\* parsed page of pags, the document rows of the store being one of dbs.
InitDocumentos(pags, dbs) ==
  /\ proc = "running"
  /\ shutdown = FALSE
  /\ isRunning = TRUE
  /\ scheduledTask = "null"
  /\ cronTasks = 0
  /\ recessoTimeout = "null"
  /\ recessoTimers = 0
  /\ caller = "main"
  /\ pc = "documentos"
  /\ activeCycles = 1
  /\ nCiclos = 1
  /\ ciclo = [CicloInicial EXCEPT !.runId = 1,
                                  !.tentativa = 1,
                                  !.listPageIsPage = FALSE,
                                  !.processosEproc = <<Linha(1, 1)>>,
                                  !.enviados = <<Linha(1, 1)>>,
                                  !.candidatos = <<Linha(1, 1)>>,
                                  !.ordenados = <<Linha(1, 1)>>,
                                  !.idx = 1]
  /\ \E pagina \in pags :
       /\ paginas = [c \in Processos |-> IF c = 1 THEN pagina ELSE <<>>]
       /\ det = [DetInicial EXCEPT !.cnj = 1, !.detailIsPage = FALSE,
                                   !.todosEventos = pagina]
       /\ dbEventos = [c \in Processos |->
                        IF c = 1
                        THEN [k \in 1..Len(pagina) |-> pagina[k].num]
                        ELSE <<>>]
  /\ browser = TRUE
  /\ tabWaits = 0
  /\ orfaos = 0
  /\ runs = <<"running">>
  /\ dbProcessos = {1}
  /\ dbLado = [c \in Processos |-> "null"]
  /\ dbDocs \in dbs
  /\ portal = {1}
  /\ ladoLista = [c \in Processos |-> "requerente"]
  /\ falhas = {"download", "upload", "closePage"}
  /\ lastStep = "detectarLado"
  /\ lastReturn = "none"
  /\ baixados = {}
  /\ rebaixados = {}

\* Any page of events with attachments, with or without attachment a of
\* event 1 recorded as downloaded.
InitDocs ==
  InitDocumentos(PaginasComDocs,
                 {{}, {GerarStoragePath(1, 1, ComPdf(<<"a">>))}})

\* The display names drawn as inputs.
Nomes == {<<"a", " ", "b">>, <<"a", "_", "b">>, <<"a", "(", "b">>, <<"a", "b">>}

\* The pages drawn as inputs of the path specification: event 1 with two
\* attachments, or events 1 and 2 with one attachment each, of any names.
PaginasComNomes ==
  {<<[num |-> <<1>>, prazo |-> TRUE, ref |-> <<1>>, docs |-> <<n1, n2>>]>> :
     n1 \in Nomes, n2 \in Nomes}
  \cup
  {<<[num |-> <<1>>, prazo |-> TRUE, ref |-> <<1>>, docs |-> <<n1>>],
     [num |-> <<2>>, prazo |-> FALSE, ref |-> <<>>, docs |-> <<n2>>]>> :
     n1 \in Nomes, n2 \in Nomes}

\* The same call on a store without document rows.
InitCaminho == InitDocumentos(PaginasComNomes, {{}})

NextDocs ==
  \/ ProcessarDocumentosProcesso
  \/ \E ok \in Resultados("leitura") : DocumentoJaBaixado(ok)
  \/ \E ok \in Resultados("download") : BaixarNewPage(ok)
  \/ \E res \in {"bytes", "vazio", "erro"} : BaixarCapturar(res)
  \/ \E ok \in Resultados("closePage") : BaixarFechar(ok)
  \/ BaixarCatch
  \/ BaixarRetornar
  \/ \E ok \in Resultados("upload") : UploadDocumento(ok)
  \/ \E ok \in Resultados("save") : SaveDocumento(ok)

\* processarDocumentosProcesso with baixarDocumento await by await, over
\* every page of events with attachments, where a download, an upload or
\* the closing of a tab may fail.
SpecDocs == InitDocs /\ [][NextDocs]_vars

\* processarDocumentosProcesso on attachments of any display names, none
\* of which is recorded in the store.
SpecCaminho == InitCaminho /\ [][NextDocs]_vars

\* The lists drawn as inputs of the progress specification: the cases of
\* the portal, each on one row, in any order.
ListasSemRepeticao ==
  {<<Linha(1, 1)>>, <<Linha(2, 1)>>, <<Linha(1, 1), Linha(2, 1)>>,
   <<Linha(2, 1), Linha(1, 1)>>}

\* The state in which a cycle calls getProcessosComEventos (index.ts 59)
\* after it extracted and reconciled a list: any list without repetition,
\* a limit of 1 or 2 cases, detail pages with or without event rows, no
\* events stored yet.
InitProgresso ==
  /\ proc = "running"
  /\ shutdown = FALSE
  /\ isRunning = TRUE
  /\ scheduledTask = "null"
  /\ cronTasks = 0
  /\ recessoTimeout = "null"
  /\ recessoTimers = 0
  /\ caller = "main"
  /\ pc = "getComEventos"
  /\ activeCycles = 1
  /\ nCiclos = 1
  /\ \E lista \in ListasSemRepeticao, max \in {1, 2} :
       /\ ciclo = [CicloInicial EXCEPT !.runId = 1,
                                       !.tentativa = 1,
                                       !.listPageIsPage = FALSE,
                                       !.processosEproc = lista,
                                       !.enviados = lista,
                                       !.maxPorCiclo = max]
       /\ portal = Cnjs(lista)
       /\ dbProcessos = Cnjs(lista)
  /\ det = DetInicial
  /\ browser = TRUE
  /\ tabWaits = 0
  /\ orfaos = 0
  /\ runs = <<"running">>
  /\ dbLado = [c \in Processos |-> "null"]
  /\ dbEventos = [c \in Processos |-> <<>>]
  /\ dbDocs = {}
  /\ paginas \in [Processos -> {<<>>, PaginaSemDocs}]
  /\ ladoLista = [c \in Processos |-> "null"]
  /\ falhas = {"parse"}
  /\ lastStep = "deleteProcessosAbertos"
  /\ lastReturn = "none"
  /\ baixados = {}
  /\ rebaixados = {}

\* The rest of the cycle and the next one up to the same call, the list
\* of the portal being the same: the locals of the detail pass start anew
\* and the store is as the cycle left it.
NovoCiclo ==
  /\ pc = "getSemLado"
  /\ Passo("novoCiclo")
  /\ ciclo' = [ciclo EXCEPT !.processosComEventos = CicloInicial.processosComEventos,
                            !.candidatos = CicloInicial.candidatos,
                            !.ordenados = CicloInicial.ordenados,
                            !.idx = CicloInicial.idx,
                            !.resultadoTodos = CicloInicial.resultadoTodos]
  /\ det' = DetInicial
  /\ pc' = "getComEventos"
  /\ UNCHANGED <<browserVars, storeVars, histVars>>

NextProgresso ==
  \/ GetProcessosComEventos(TRUE)
  \/ ExtrairDetalhesProcessos
  \/ Detalhes
  \/ NovoCiclo

\* The detail pass cycle after cycle on an unchanged list; the cycles
\* keep being triggered and every step that is begun is finished.
SpecProgresso ==
  InitProgresso /\ [][NextProgresso]_vars /\ WF_vars(NextProgresso)

\* The state in which the first cycle has opened its tab and calls login
\* (index.ts 40), the attempt ending on any screen.
InitLogin ==
  /\ proc = "running"
  /\ shutdown = FALSE
  /\ isRunning = TRUE
  /\ scheduledTask = "null"
  /\ cronTasks = 0
  /\ recessoTimeout = "null"
  /\ recessoTimers = 0
  /\ caller = "main"
  /\ pc = "login"
  /\ activeCycles = 1
  /\ nCiclos = 1
  /\ ciclo = [CicloInicial EXCEPT !.runId = 1]
  /\ det = DetInicial
  /\ browser = TRUE
  /\ tabWaits = 0
  /\ orfaos = 0
  /\ runs = <<"running">>
  /\ dbProcessos = {}
  /\ dbLado = [c \in Processos |-> "null"]
  /\ dbEventos = [c \in Processos |-> <<>>]
  /\ dbDocs = {}
  /\ portal = {1}
  /\ paginas = [c \in Processos |-> <<>>]
  /\ ladoLista = [c \in Processos |-> "requerente"]
  /\ falhas = {"tela"}
  /\ lastStep = "newPage"
  /\ lastReturn = "none"
  /\ baixados = {}
  /\ rebaixados = {}

NextLogin == \E tela \in TelasDeLogin : Login(tela)

\* login with its retry, each attempt ending on any screen up to the
\* bounds.
SpecLogin == InitLogin /\ [][NextLogin]_vars

\* The state in which the first cycle, logged in and on the lawyer's
\* panel, calls navegarParaListaPrazos (database.ts 875), with or without the
\* start tab of the browser still open beside the cycle's own.
InitAbas ==
  /\ proc = "running"
  /\ shutdown = FALSE
  /\ isRunning = TRUE
  /\ scheduledTask = "null"
  /\ cronTasks = 0
  /\ recessoTimeout = "null"
  /\ recessoTimers = 0
  /\ caller = "main"
  /\ pc = "navLista"
  /\ activeCycles = 1
  /\ nCiclos = 1
  /\ \E abas \in {<<"painel">>, <<"blank", "painel">>} :
       ciclo = [CicloInicial EXCEPT !.runId = 1,
                                    !.tentativa = 1,
                                    !.page = TelaOk,
                                    !.allPages = abas]
  /\ det = DetInicial
  /\ browser = TRUE
  /\ tabWaits = 0
  /\ orfaos = 0
  /\ runs = <<"running">>
  /\ dbProcessos = {}
  /\ dbLado = [c \in Processos |-> "null"]
  /\ dbEventos = [c \in Processos |-> <<>>]
  /\ dbDocs = {}
  /\ portal = {1}
  /\ paginas = [c \in Processos |-> <<>>]
  /\ ladoLista = [c \in Processos |-> "requerente"]
  /\ falhas = {"semAba", "lista"}
  /\ lastStep = "navegarParaPainelAdvogado"
  /\ lastReturn = "none"
  /\ baixados = {}
  /\ rebaixados = {}

NextAbas ==
  \/ WaitForNewTab
  \/ ArmarListener
  \/ \E res \in {"novaAba", "mesmaAba", "nada", "semLink"},
        mostra \in {"lista", "outra"}, alvo \in {"page", "null"} :
        ClicarLista(res, mostra, alvo)
  \/ TargetCreated
  \/ TimeoutNovaAba
  \/ AguardarAba

\* navegarParaListaPrazos with waitForNewTab, for every order of the
\* browser's answers and every effect of the click.
SpecAbas == InitAbas /\ [][NextAbas]_vars

\* The state of InitAbas with any set of cases stored by earlier cycles,
\* in a run with the failures f.
InitNavegacao(f) ==
  /\ proc = "running"
  /\ shutdown = FALSE
  /\ isRunning = TRUE
  /\ scheduledTask = "null"
  /\ cronTasks = 0
  /\ recessoTimeout = "null"
  /\ recessoTimers = 0
  /\ caller = "main"
  /\ pc = "navLista"
  /\ activeCycles = 1
  /\ nCiclos = 1
  /\ \E abas \in {<<"painel">>, <<"blank", "painel">>} :
       ciclo = [CicloInicial EXCEPT !.runId = 1,
                                    !.tentativa = 1,
                                    !.page = TelaOk,
                                    !.allPages = abas]
  /\ det = DetInicial
  /\ browser = TRUE
  /\ tabWaits = 0
  /\ orfaos = 0
  /\ runs = <<"running">>
  /\ dbProcessos \in SUBSET Processos
  /\ dbLado = [c \in Processos |-> "null"]
  /\ dbEventos = [c \in Processos |-> <<>>]
  /\ dbDocs = {}
  /\ portal = {1}
  /\ paginas = [c \in Processos |-> <<>>]
  /\ ladoLista = [c \in Processos |-> "requerente"]
  /\ falhas = f
  /\ lastStep = "navegarParaPainelAdvogado"
  /\ lastReturn = "none"
  /\ baixados = {}
  /\ rebaixados = {}

InitFases == InitNavegacao({"semAba", "lista", "store"})

NextFases ==
  \/ NextAbas
  \/ \E ok \in Resultados("tabela") : ExtrairListaPrazos(ok)
  \/ \E ok \in Resultados("store") : GetAllProcessosAbertos(ok)
  \/ \E ok \in Resultados("store") : InsertProcessosAbertos(ok)
  \/ \E ok \in Resultados("store") : DeleteProcessosAbertos(ok)
  \/ \E ok \in Resultados("updateRun") : UpdateRunError(ok)
  \/ \E ok \in Resultados("closeBrowser") : CloseBrowser(ok)

\* The cycle from the list navigation to the end of reconciliation, tab
\* by tab, over a store that holds cases and may reject a call.
SpecFases == InitFases /\ [][NextFases]_vars

InitTimeout == InitNavegacao({"tabela", "store"})

\* The same steps in runs where the list link works and the wait of
\* extrairListaPrazos for the table rows may time out.
SpecTimeout == InitTimeout /\ [][NextFases]_vars

\* The state in which the first cycle calls extrairDetalhesProcessos
\* (index.ts 64), for any extracted list, any loaded skip-set and a limit
\* of 1 or 2 cases; the list rows name the represented side.
InitSelecao ==
  /\ proc = "running"
  /\ shutdown = FALSE
  /\ isRunning = TRUE
  /\ scheduledTask = "null"
  /\ cronTasks = 0
  /\ recessoTimeout = "null"
  /\ recessoTimers = 0
  /\ caller = "main"
  /\ pc = "extrairDetalhes"
  /\ activeCycles = 1
  /\ nCiclos = 1
  /\ \E lista \in Listas, comEventos \in SUBSET Processos, max \in {1, 2} :
       /\ ciclo = [CicloInicial EXCEPT
                     !.runId = 1,
                     !.tentativa = 1,
                     !.page = TelaOk,
                     !.listPageIsPage = FALSE,
                     !.processosEproc = lista,
                     !.enviados = UniqueProcessos(lista),
                     !.processosComEventos = comEventos,
                     !.maxPorCiclo = max]
       /\ dbProcessos = Cnjs(lista)
       /\ dbEventos = [c \in Processos |->
                         IF c \in comEventos THEN <<1, 2>> ELSE <<>>]
  /\ det = DetInicial
  /\ browser = TRUE
  /\ tabWaits = 0
  /\ orfaos = 0
  /\ runs = <<"running">>
  /\ dbLado = [c \in Processos |-> "null"]
  /\ dbDocs = {}
  /\ portal = dbProcessos
  /\ paginas = [c \in Processos |-> PaginaSemDocs]
  /\ ladoLista = [c \in Processos |-> "requerente"]
  /\ falhas = {}
  /\ lastStep = "getProcessosComEventos"
  /\ lastReturn = "none"
  /\ baixados = {}
  /\ rebaixados = {}

NextSelecao ==
  \/ ExtrairDetalhesProcessos
  \/ NavegarParaDetalhesProcesso("novaAba")
  \/ ParseEventosProcesso(TRUE)
  \/ SyncEventosDelete(TRUE)
  \/ SyncEventosInsert(TRUE)
  \/ DetectarLado("nenhum")
  \/ ProcessarDocumentosProcesso
  \/ CloseDetailPage(TRUE)

\* The detail pass of one cycle, for every extracted list and skip-set up
\* to the bounds.
SpecSelecao == InitSelecao /\ [][NextSelecao]_vars

\* A docket number written with the digit d.
Numero(d) ==
  Rep(7, d) \o <<"-">> \o Rep(2, d) \o <<".">> \o Rep(4, d) \o <<".">>
    \o Rep(1, d) \o <<".">> \o Rep(2, d) \o <<".">> \o Rep(4, d)

\* The case cells drawn as inputs: a number inside markup, a bare number,
\* a number short of its first digit, one short of its last digit, one
\* with a dot for the dash, no number, a number inside a longer run of
\* digits, two numbers.
Celulas ==
  { <<"x">> \o Numero("1") \o <<"x">>,
    Numero("2"),
    SubSeq(Numero("1"), 2, 25),
    SubSeq(Numero("1"), 1, 24),
    [Numero("1") EXCEPT ![8] = "."],
    <<"x", "x">>,
    <<"9">> \o Numero("1") \o <<"9">>,
    Numero("1") \o <<"x">> \o Numero("2") }

\* The table rows drawn as inputs: a full row of 8 cells or a row of 6.
LinhasDaTabela == {[cells |-> n, processo |-> c] : n \in {6, 8}, c \in Celulas}

Tabelas == UNION {[1..n -> LinhasDaTabela] : n \in 0..MaxLista}

\* The state in which the first cycle has the list page open and
\* extrairListaPrazos parses its table (database.ts 858), for any table.
InitTabela ==
  /\ proc = "running"
  /\ shutdown = FALSE
  /\ isRunning = TRUE
  /\ scheduledTask = "null"
  /\ cronTasks = 0
  /\ recessoTimeout = "null"
  /\ recessoTimers = 0
  /\ caller = "main"
  /\ pc = "parseLista"
  /\ activeCycles = 1
  /\ nCiclos = 1
  /\ \E tabela \in Tabelas :
       ciclo = [CicloInicial EXCEPT !.runId = 1,
                                    !.tentativa = 1,
                                    !.page = TelaOk,
                                    !.listPageIsPage = FALSE,
                                    !.tabela = tabela]
  /\ det = DetInicial
  /\ browser = TRUE
  /\ tabWaits = 0
  /\ orfaos = 0
  /\ runs = <<"running">>
  /\ dbProcessos = {}
  /\ dbLado = [c \in Processos |-> "null"]
  /\ dbEventos = [c \in Processos |-> <<>>]
  /\ dbDocs = {}
  /\ portal = {}
  /\ paginas = [c \in Processos |-> <<>>]
  /\ ladoLista = [c \in Processos |-> "null"]
  /\ falhas = {}
  /\ lastStep = "navegarParaListaPrazos"
  /\ lastReturn = "none"
  /\ baixados = {}
  /\ rebaixados = {}

NextTabela == ExtrairListaDaTabela

\* parseListaPrazos applied to every table up to the bounds.
SpecTabela == InitTabela /\ [][NextTabela]_vars

\* The characters a configured secret is drawn from: letters in both
\* cases, digits inside and outside 2-7, the separators sanitizeTotpSecret
\* removes, and the padding sign.
Caracteres ==
  {"a", "A", "z", "Z", "2", "7", "0", "1", "8", " ", "\t", "_", "-", "="}

Secrets == UNION {[1..n -> Caracteres] : n \in 1..MaxSecret}

\* The state in which login, in its first attempt of the first cycle, is
\* asked for the one-time code (auth.ts 236), for any configured secret.
InitTotp ==
  /\ proc = "running"
  /\ shutdown = FALSE
  /\ isRunning = TRUE
  /\ scheduledTask = "null"
  /\ cronTasks = 0
  /\ recessoTimeout = "null"
  /\ recessoTimers = 0
  /\ caller = "main"
  /\ pc = "totp"
  /\ activeCycles = 1
  /\ nCiclos = 1
  /\ \E secret \in Secrets :
       ciclo = [CicloInicial EXCEPT !.runId = 1, !.totpSecret = secret]
  /\ det = DetInicial
  /\ browser = TRUE
  /\ tabWaits = 0
  /\ orfaos = 0
  /\ runs = <<"running">>
  /\ dbProcessos = {}
  /\ dbLado = [c \in Processos |-> "null"]
  /\ dbEventos = [c \in Processos |-> <<>>]
  /\ dbDocs = {}
  /\ portal = {1}
  /\ paginas = [c \in Processos |-> <<>>]
  /\ ladoLista = [c \in Processos |-> "requerente"]
  /\ falhas = {}
  /\ lastStep = "newPage"
  /\ lastReturn = "none"
  /\ baixados = {}
  /\ rebaixados = {}

NextTotp ==
  \/ GenerateTOTP
  \/ \E tela \in TelasDeLogin : Login(tela)

\* generateTOTP within a login attempt, for every secret up to the bounds.
SpecTotp == InitTotp /\ [][NextTotp]_vars

NextSyncErro ==
  \/ \E ok \in Resultados("store") : InsertProcessosAbertos(ok)
  \/ \E ok \in Resultados("store") : DeleteProcessosAbertos(ok)
  \/ UpdateRunError(TRUE)
  \/ CloseBrowser(TRUE)

\* syncProcessos for every extracted list and stored set up to the bounds,
\* with the store rejecting any of its two calls, and the cycle's error
\* handling after a rejected call.
SpecSyncErro == InitSync /\ [][NextSyncErro]_vars

\* ------------------------------------------------------------ properties
\* An executarCiclo invocation has just ended: it returned after a normal
\* pass, returned after the catch block, or threw.
Terminou ==
  lastStep \in {"retornar", "retornarErro", "createScraperRunErro",
                "closeBrowserErro"}

\* C1: at most one cycle is in progress at any time; an executarCiclo
\* invoked while the flag is set returns false at once, and that step
\* touches neither the browser nor the store nor the running cycle.
C1_UmCicloPorVez ==
  /\ [](activeCycles <= 1)
  /\ [][(isRunning /\ lastStep' \in {"pular", "iniciar"})
          => /\ lastStep' = "pular"
             /\ lastReturn' = "false"
             /\ UNCHANGED <<isRunning, cycleVars, browserVars, storeVars>>]_vars

\* C1, its case: a trigger found a cycle in progress and was skipped.
C1_Pulou == lastStep = "pular" /\ isRunning /\ activeCycles = 1

\* C2: when an invocation that set the flag ends, by returning or by an
\* error in any step (creating the RunRecord, finalizing it and closing
\* the browser included), the flag is false.
C2_FlagLimpa == Terminou => ~isRunning

\* C3: after a cycle that returned true the cron task is cancelled and
\* exactly one dormant timer is armed; after a cycle that returned false
\* the cron task is installed and no dormant timer is armed.
C3_AgendamentoSempre ==
  lastStep \in {"retornar", "retornarErro"} =>
    IF lastReturn = "true"
    THEN /\ scheduledTask = "null"
         /\ cronTasks = 0
         /\ recessoTimeout = "pending"
         /\ recessoTimers = 1
    ELSE /\ lastReturn = "false"
         /\ scheduledTask = "running"
         /\ cronTasks = 1
         /\ recessoTimeout # "pending"
         /\ recessoTimers = 0

\* C3, amended: as above, except that after a cycle that returned false
\* the cron task is left stopped when gracefulShutdown stopped it while
\* that cycle was running.
C3_Agendamento ==
  lastStep \in {"retornar", "retornarErro"} =>
    IF lastReturn = "true"
    THEN /\ scheduledTask = "null"
         /\ cronTasks = 0
         /\ recessoTimeout = "pending"
         /\ recessoTimers = 1
    ELSE /\ lastReturn = "false"
         /\ recessoTimeout # "pending"
         /\ recessoTimers = 0
         /\ \/ scheduledTask = "running" /\ cronTasks = 1
            \/ shutdown /\ scheduledTask = "stopped" /\ cronTasks = 0

\* C3, its case: the second cycle, started by the cron task, returned
\* true and the scheduler went dormant.
C3_EntrouEmRecesso ==
  /\ lastStep = "retornar"
  /\ lastReturn = "true"
  /\ nCiclos = 2
  /\ recessoTimers = 1

\* C4: a cycle that fails with any error, the failure to create the
\* RunRecord included, counts as not drained: its caller gets false, the
\* process keeps running with the cron task installed, and the next
\* trigger can start a cycle.
C4_ErroNaoDrena ==
  lastStep \in {"retornarErro", "createScraperRunErro", "closeBrowserErro"}
    => /\ proc = "running"
       /\ lastReturn = "false"
       /\ (~shutdown => cronTasks = 1)
       /\ ~isRunning

\* C5: by the end of every invocation that passed the guard, it has
\* created exactly one RunRecord and that record is finalized: no record
\* of an ended cycle is left 'running'.
C5_RunRecords ==
  Terminou =>
    /\ Len(runs) = nCiclos
    /\ \A k \in 1..Len(runs) : runs[k] # "running"

\* C6: detail extraction is never started for a case that already has
\* persisted events.
C6_NaoReextrai ==
  lastStep = "navegarParaDetalhesProcesso" => dbEventos[det.cnj] = <<>>

\* C7: a cycle returns true only when the detail pass left no candidate
\* beyond those it processed and the backfill pass left no case beyond
\* those it processed, and never when it entered the catch block.
C7_DrenadoSoSemErro ==
  [][(lastStep' \in {"retornar", "retornarErro"} /\ lastReturn' = "true")
       => /\ Len(ciclo.candidatos) = Len(ciclo.ordenados)
          /\ Len(ciclo.processosSemLado) <= MAX_PROCESSES_PER_CYCLE
          /\ ~ciclo.erro]_vars

\* C8: a failure while extracting one case's details stays in that case:
\* the process is not ended by it, neither at once nor later.  (Under
\* Spec only a failed navigation to a detail page leaves a tab wait armed.)
C8_FalhaConfinada == ~(proc = "exit1" /\ lastStep = "tabWaitTimeout")

\* C9: when the store records the storage path of an attachment, the
\* download loop does not go on to fetch it.
C9_SemFetchSeRegistrado == pc = "baixar" => PathAtual \notin dbDocs

\* C10: over any sequence of cycles the bytes of a storage path are
\* fetched from the portal at most once.
C10_UmFetchPorDocumento == rebaixados = {}

\* C11: for every extracted list and stored map, compareProcessos gives
\* as new the identifiers extracted and not stored and as removed the
\* identifiers stored and not extracted; new with the stored identifiers
\* that are kept is the extracted set, new and removed are disjoint, and
\* after a reconciliation that succeeded the stored identifiers are the
\* extracted ones.
C11_Reconciliacao ==
  LET r == CompareProcessos(ciclo.processosEproc, ciclo.dbMap)
      extraidos == Cnjs(ciclo.processosEproc)
      mantidos == ciclo.dbMap \ r.removidos
  IN /\ Cnjs(r.novos) = extraidos \ ciclo.dbMap
     /\ r.removidos = ciclo.dbMap \ extraidos
     /\ Cnjs(r.novos) \cup mantidos = extraidos
     /\ Cnjs(r.novos) \cap r.removidos = {}
     /\ (lastStep = "deleteProcessosAbertos" /\ pc = "getComEventos")
          => dbProcessos = extraidos

\* C11, its case: a reconciliation that found a new case and a removed
\* case has been applied to the store.
C11_NovosERemovidos ==
  /\ lastStep = "deleteProcessosAbertos"
  /\ pc = "getComEventos"
  /\ CompareProcessos(ciclo.processosEproc, ciclo.dbMap).novos # <<>>
  /\ Removidos # {}

\* C12: the rows insertProcessosAbertos sends to the store hold exactly
\* one row per distinct case identifier of the input list, and for each
\* identifier that row is the last one of the input with that identifier.
C12_UmPorIdentificador ==
  lastStep = "insertProcessosAbertos" =>
    LET entrada == ciclo.processosEproc
        ultimo(c) == CHOOSE j \in 1..Len(entrada) :
                       /\ entrada[j].cnj = c
                       /\ \A i \in (j + 1)..Len(entrada) : entrada[i].cnj # c
    IN /\ Len(ciclo.enviados) = Cardinality(Cnjs(entrada))
       /\ Cnjs(ciclo.enviados) = Cnjs(entrada)
       /\ \A k \in 1..Len(ciclo.enviados) :
            ciclo.enviados[k] = entrada[ultimo(ciclo.enviados[k].cnj)]

\* C12, its case: the input list repeats an identifier with different
\* rows and the upsert has been sent.
C12_ListaComRepetidos ==
  /\ lastStep = "insertProcessosAbertos"
  /\ \E i, j \in 1..Len(ciclo.processosEproc) :
       /\ i < j
       /\ ciclo.processosEproc[i].cnj = ciclo.processosEproc[j].cnj
       /\ ciclo.processosEproc[i] # ciclo.processosEproc[j]

\* C13: the upsert of the extracted list changes no stored lado_cliente,
\* and a case that stays stored through the reconciliation keeps the
\* lado_cliente it had, whatever the extracted row carries.
C13_UpsertPreservaLado ==
  [][/\ lastStep' = "insertProcessosAbertos" => dbLado' = dbLado
     /\ lastStep' = "deleteProcessosAbertos" =>
          \A c \in dbProcessos' : dbLado'[c] = dbLado[c]]_vars

\* C13, its case: a stored case with a lado_cliente was extracted again
\* with a row that infers another side, and the upsert succeeded.
C13_LadoDiferenteNaLista ==
  /\ lastStep = "insertProcessosAbertos"
  /\ pc = "delete"
  /\ \E c \in Cnjs(ciclo.processosEproc) :
       /\ c \in ciclo.dbMap
       /\ dbLado[c] # "null"
       /\ ladoLista[c] # dbLado[c]

\* C14: once the store holds a non-null lado_cliente for a case, no later
\* detail extraction of that case scans the representatives again, and
\* none writes the represented-side fields again.
C14_LadoUmaVez ==
  /\ (lastStep = "detectarLado" /\ ladoLista[det.cnj] = "null")
       => dbLado[det.cnj] = "null"
  /\ pc = "updateLado" => dbLado[det.cnj] = "null"

\* C15: when syncEventosProcesso has ended for a case, by returning or by
\* throwing, the stored events of the case are exactly the ones stored
\* before the call or exactly the freshly parsed ones to persist: not
\* none, not a mixture, no event twice.
C15_TrocaAtomica ==
  lastStep = "syncEventosInsert" =>
    LET novos == EventosRelevantes(det.todosEventos)
    IN dbEventos[det.cnj] \in
         {det.anteriores, [k \in 1..Len(novos) |-> novos[k].num]}

\* Number of places of the sequence s that hold e.
Ocorrencias(s, e) == Cardinality({k \in 1..Len(s) : s[k] = e})

\* C16: for every event list, identificarEventosComDocumentos takes as
\* base the smallest event number referenced by an event flagged as open
\* deadline and returns exactly the events numbered >= base that have an
\* attachment, in ascending order of number; without a flagged event that
\* refers to an event it returns nothing.
C16_RegraDeDocumentos ==
  lastStep = "processarDocumentosProcesso" =>
    LET evs == det.todosEventos
        res == det.eventosDocs
        refs == {evs[k].ref[1] : k \in {j \in 1..Len(evs) :
                                          evs[j].prazo /\ evs[j].ref # <<>>}}
    IN IF refs = {} THEN res = <<>>
       ELSE LET base == CHOOSE b \in refs : \A r \in refs : b <= r
                esperados == SelectSeq(evs, LAMBDA e :
                               /\ e.num # <<>>
                               /\ e.num[1] >= base
                               /\ e.docs # <<>>)
            IN /\ Len(res) = Len(esperados)
               /\ \A e \in Elems(evs) :
                    Ocorrencias(res, e) = Ocorrencias(esperados, e)
               /\ \A i, j \in 1..Len(res) :
                    i < j => res[i].num[1] <= res[j].num[1]

\* C16, its case: two open deadlines refer to different events, the first
\* on the page to the larger one, and the events selected are not in
\* ascending order on the page.
C16_DoisPrazosForaDeOrdem ==
  /\ lastStep = "processarDocumentosProcesso"
  /\ Len(det.eventosDocs) >= 2
  /\ \E i, j \in 1..Len(det.todosEventos) :
       /\ i < j
       /\ det.todosEventos[i].prazo /\ det.todosEventos[j].prazo
       /\ det.todosEventos[i].ref = <<2>> /\ det.todosEventos[j].ref = <<1>>
       /\ det.todosEventos[i].num = <<2>> /\ det.todosEventos[j].num = <<1>>
       /\ det.todosEventos[i].docs # <<>> /\ det.todosEventos[j].docs # <<>>

LoginEsgotado ==
  /\ pc \in {"catch", "finally"}
  /\ ciclo.tentativa = LoginMaxRetries + 1
  /\ ciclo.listPageIsPage
  /\ ciclo.processosEproc = <<>>

\* C18: a cycle makes at most two login attempts, the second only after
\* the first failed; when the second fails too the cycle goes to its error
\* handling, and from there to its end no step logs in again, extracts the
\* list or changes the stored cases, events or documents, and the cycle
\* ends by its error return or by throwing.
C18_LoginNoMaximoDuasVezes ==
  [][ /\ ciclo'.tentativa <= LoginMaxRetries + 1
      /\ pc' = "login" => ciclo'.tentativa <= LoginMaxRetries
      /\ (lastStep' = "loginFalhou" /\ pc' # "login") => LoginEsgotado'
      /\ LoginEsgotado =>
           /\ UNCHANGED <<dbProcessos, dbLado, dbEventos, dbDocs>>
           /\ lastStep' \notin {"loginOk", "loginFalhou",
                                "navegarParaListaPrazos",
                                "extrairListaPrazos"}
           /\ pc' \in {"catch", "finally", "idle"}
           /\ pc' = "idle" =>
                lastStep' \in {"retornarErro", "closeBrowserErro"}
    ]_vars

\* C18, its case: both login attempts failed and the cycle has recorded
\* the error and is about to close the browser.
C18_DuasFalhas ==
  /\ LoginEsgotado
  /\ pc = "finally"
  /\ ciclo.erro
  /\ lastStep = "updateRunError"

\* C19: an attempt is a failure when an element matching the error
\* selector is on the page and when the final URL is still a login or
\* identity-provider one, and a success otherwise: login never reports
\* success with an error element on the page or on a login URL.
C19_ClassificacaoDoLogin ==
  lastStep \in {"loginOk", "loginFalhou"} =>
    (lastStep = "loginOk" <=>
       (ciclo.page.erros = <<>> /\ ciclo.page.url \cap MarcasDeLogin = {}))

\* C20: whenever no cycle is running in the live process the browser
\* session is closed: every cycle, ended well or in error, tears its
\* session down, and the next one finds none to reuse.
C20_SessaoEncerrada ==
  (proc = "running" /\ pc = "idle") => ~browser

\* C21: a gracefulShutdown call leaves no cron task and no dormant timer
\* live; when no cycle is active it ends the process at once with code 0,
\* otherwise the process goes on until the active cycle has finished; and
\* the process never exits with code 0 while a cycle is active.
C21_EncerramentoGracioso ==
  [][ /\ lastStep' = "gracefulShutdown" =>
           /\ cronTasks' = 0
           /\ recessoTimers' = 0
           /\ scheduledTask' # "running"
           /\ recessoTimeout' # "pending"
           /\ IF activeCycles = 0 THEN proc' = "exit0"
              ELSE proc' = "running" /\ shutdown'
      /\ (proc = "running" /\ proc' = "exit0") => activeCycles = 0
    ]_vars

\* C22: the targetcreated listener is registered before the click is
\* issued, and no created tab is announced while no listener is registered.
C22_ListenerAntesDoClique ==
  /\ [][lastStep' = "clicarLista" => ciclo.newTabPromise = "pending"]_vars
  /\ [](~ciclo.perdido)

\* C23: when no new tab appeared, navegarParaListaPrazos returns the tab
\* itself only if it shows the list, else another open tab only if that
\* one shows the list, and throws when no tab does: the tab it returns
\* always shows the list.
C23_AbaDaLista ==
  (lastStep = "aguardarAba" /\ ciclo.newTabPromise = "rejected") =>
    IF \E k \in 1..Len(ciclo.allPages) : ciclo.allPages[k] = "lista"
    THEN pc = "extrairLista" /\ ciclo.allPages[ciclo.newPage] = "lista"
    ELSE pc = "catch"

\* C29: a wait that is armed and not yet settled has its timer running
\* or was just handed a page: it cannot stay pending for ever.
C29_EsperaLimitada ==
  ciclo.newTabPromise = "pending" => ciclo.timeoutId

\* C24: the detail pass of a cycle selects at most maxPorCiclo cases, all
\* outside the skip-set, and opens the detail view of a case only if it
\* has not opened it earlier in the same pass.
C24_NoMaximoNUmaVez ==
  /\ Len(ciclo.ordenados) <= ciclo.maxPorCiclo
  /\ \A k \in 1..Len(ciclo.ordenados) :
       ciclo.ordenados[k].cnj \notin ciclo.processosComEventos
  /\ lastStep = "navegarParaDetalhesProcesso" =>
       \A k \in 1..(ciclo.idx - 1) : ciclo.ordenados[k].cnj # det.cnj

\* The text t is a docket number: 7 digits, a dash, 2 digits, a dot,
\* 4 digits, a dot, 1 digit, a dot, 2 digits, a dot, 4 digits.
BemFormado(t) ==
  /\ Len(t) = 25
  /\ \A k \in 1..25 :
       CASE k = 8 -> t[k] = "-"
         [] k \in {11, 16, 18, 21} -> t[k] = "."
         [] OTHER -> EhDigito(t[k])

\* The places of the text s at which a docket number starts.
Ocorre(s) == {i \in 1..Len(s) : i + 24 <= Len(s) /\ BemFormado(SubSeq(s, i, i + 24))}

\* The parsed records are, in table order, those of the rows numbered in
\* manter, each identified by the first docket number of its case cell.
RegistrosDe(manter) ==
  LET recs == ciclo.processosEproc
      ordem == SeqDe(manter)
  IN /\ Len(recs) = Cardinality(manter)
     /\ \A j \in 1..Len(recs) :
          LET s == ciclo.tabela[ordem[j]].processo
          IN \E i \in Ocorre(s) :
               /\ recs[j].cnj = SubSeq(s, i, i + 24)
               /\ \A h \in Ocorre(s) : i <= h

\* C25: the parsed list has one record per table row whose case cell
\* contains a docket number, identified by that number, and none for the
\* other rows.
C25_LinhasComNumero ==
  lastStep = "parseListaPrazos" =>
    RegistrosDe({k \in 1..Len(ciclo.tabela) :
                   Ocorre(ciclo.tabela[k].processo) # {}})

\* C25, amended: the same for the rows of at least 7 cells; a row of
\* fewer cells is dropped whatever its case cell contains.
C25_LinhasCompletasComNumero ==
  lastStep = "parseListaPrazos" =>
    RegistrosDe({k \in 1..Len(ciclo.tabela) :
                   /\ ciclo.tabela[k].cells >= 7
                   /\ Ocorre(ciclo.tabela[k].processo) # {}})

\* C25, its case: of three full rows two carry a docket number and one a
\* malformed one, and two records were made.
C25_DuasDeTres ==
  /\ lastStep = "parseListaPrazos"
  /\ Len(ciclo.tabela) = 3
  /\ \A k \in 1..3 : ciclo.tabela[k].cells = 8
  /\ ciclo.tabela[2].processo = SubSeq(Numero("1"), 2, 25)
  /\ Len(ciclo.processosEproc) = 2
  /\ ciclo.processosEproc[1].cnj = Numero("1")
  /\ ciclo.processosEproc[2].cnj = Numero("2")

\* The alphabet of the code algorithm: A-Z and 2-7.
Base32 ==
  {"A", "B", "C", "D", "E", "F", "G", "H", "I", "J", "K", "L", "M", "N",
   "O", "P", "Q", "R", "S", "T", "U", "V", "W", "X", "Y", "Z",
   "2", "3", "4", "5", "6", "7"}

\* C26: whatever the configured secret, the sanitized secret handed to the
\* code generator holds only characters of A-Z and 2-7.
C26_SegredoBase32 ==
  lastStep = "generateTOTP" =>
    \A k \in 1..Len(ciclo.secret) : ciclo.secret[k] \in Base32

\* C27: the RunRecord finalized by a successful cycle counts as found
\* the extracted rows, as new the extracted identifiers that were not
\* stored before the reconciliation, and as removed the stored
\* identifiers that were not extracted.
C27_Contagens ==
  (lastStep = "updateRunSuccess" /\ ciclo.runCounts # <<>>) =>
    /\ ciclo.runCounts.processos_encontrados = Len(ciclo.processosEproc)
    /\ ciclo.runCounts.processos_novos =
         Cardinality(Cnjs(ciclo.processosEproc) \ ciclo.dbMap)
    /\ ciclo.runCounts.processos_removidos =
         Cardinality(ciclo.dbMap \ Cnjs(ciclo.processosEproc))

\* C30: a stored case is deleted only by the delete of syncProcessos, and
\* that runs only right after the upsert of the same call has stored the
\* whole extracted set; a rejected upsert changes nothing in the store and
\* takes the cycle to its error handling.
C30_UpsertAntesDoDelete ==
  [][ /\ (\E c \in dbProcessos : c \notin dbProcessos') =>
           /\ pc = "delete"
           /\ lastStep = "insertProcessosAbertos"
           /\ lastStep' = "deleteProcessosAbertos"
           /\ Cnjs(ciclo.processosEproc) \subseteq dbProcessos
      /\ (lastStep' = "insertProcessosAbertos" /\ ciclo'.inserted = <<>>) =>
           /\ pc' = "catch"
           /\ UNCHANGED <<dbProcessos, dbLado, dbEventos, dbDocs>>
      /\ lastStep' = "deleteProcessosAbertos" => ciclo.inserted # <<>>
    ]_vars

\* C30, its case: the upsert was rejected while stored cases were absent
\* from the extraction; the cycle has gone through its error handling and
\* those cases are still stored.
C30_UpsertRejeitado ==
  /\ lastStep = "updateRunError"
  /\ ciclo.inserted = <<>>
  /\ ciclo.enviados # <<>>
  /\ Removidos # {}
  /\ Removidos \subseteq dbProcessos


\* The phase of executarCiclo a position belongs to: 1 RunRecord creation,
\* 2 authentication, 3 list extraction, 4 reconciliation, 5 skip-set load,
\* 6 detail pass, 7 backfill pass, 8 finalization; 9 and 10 are the catch
\* and finally blocks, 0 is outside a cycle.
Fase(p) ==
  CASE p \in {"createScraperRun"} -> 1
    [] p \in {"launchBrowser", "newPage", "totp", "login"} -> 2
    [] p \in {"painel", "navLista", "clicarLista", "aguardarAba",
              "extrairLista", "parseLista"} -> 3
    [] p \in {"getAll", "upsert", "delete"} -> 4
    [] p \in {"getComEventos"} -> 5
    [] p \in {"extrairDetalhes", "navegarDetalhes", "parseEventos",
              "syncDelete", "syncInsert", "detectarLado", "updateLado",
              "documentos", "jaBaixado", "baixar", "upload",
              "saveDocumento", "closeDetail"} -> 6
    [] p \in {"getSemLado", "backfill"} -> 7
    [] p \in {"closeListPage", "updateRun"} -> 8
    [] p \in {"catch"} -> 9
    [] p \in {"finally"} -> 10
    [] OTHER -> 0

\* The list navigation of the cycle failed: the wait for the new tab was
\* rejected and no open tab shows the list.
NavegacaoFalhou ==
  /\ ciclo.newTabPromise = "rejected"
  /\ \A k \in 1..Len(ciclo.allPages) : ciclo.allPages[k] # "lista"

\* C28: the cycle goes through its phases in the order RunRecord creation,
\* authentication, list extraction, reconciliation, skip-set load, detail
\* pass, backfill pass, finalization, never back and never over a phase,
\* an error leading to the catch block only; and no stored case is
\* upserted or deleted in a cycle whose login or list navigation failed.
C28_OrdemDasFases ==
  [][ /\ (Fase(pc) # 0 /\ pc' # "idle") =>
            /\ Fase(pc') >= Fase(pc)
            /\ Fase(pc') <= 8 => Fase(pc') <= Fase(pc) + 1
      /\ (Fase(pc) = 0 /\ pc' # pc) => Fase(pc') = 1
      /\ (lastStep' = "loginFalhou" /\ pc' # "login") => pc' = "catch"
      /\ dbProcessos' # dbProcessos =>
            /\ Fase(pc) = 4
            /\ ~NavegacaoFalhou
    ]_vars

\* The positions of the download loop of processarDocumentosProcesso.
PcsDeDocumentos ==
  {"jaBaixado", "baixar", "baixarCapturar", "baixarFechar", "baixarCatch",
   "baixarRetornar", "upload", "saveDocumento"}

\* The download loop is at the last attachment of the last relevant event.
UltimoDocumento ==
  /\ det.ei = Len(det.eventosDocs)
  /\ det.di = Len(EventoAtual.docs)

\* C31: baixarDocumento returns null when it captured no non-empty bytes
\* and never throws; after a null download or a failed upload the loop
\* goes to the next attachment, leaving the loop only after the last one
\* and never by a throw; a document row is written only by saveDocumento,
\* which is reached by a successful upload only.
C31_FalhaNaoAbortaOCaso ==
  [][ /\ pc \in PcsDeDocumentos =>
            /\ pc' \in PcsDeDocumentos \cup {"closeDetail"}
            /\ pc' = "closeDetail" => UltimoDocumento
            /\ <<det'.ei, det'.di>> # <<det.ei, det.di>> =>
                  /\ pc' = "jaBaixado"
                  /\ \/ det'.ei = det.ei /\ det'.di = det.di + 1
                     \/ /\ det'.ei = det.ei + 1 /\ det'.di = 1
                        /\ det.di = Len(EventoAtual.docs)
      /\ (pc = "baixarRetornar" /\ det.buffer # "bytes") =>
            lastStep' = "baixarDocumentoNull"
      /\ lastStep' = "baixarDocumentoNull" =>
            /\ dbDocs' = dbDocs
            /\ pc' # "upload"
      /\ pc' = "saveDocumento" => (pc = "upload" /\ det.retorno = "buffer")
      /\ dbDocs' # dbDocs => pc = "saveDocumento"
    ]_vars

\* A download gave null for an attachment of the first event and the loop
\* is at an attachment of the second.
C31_SegueAposNull ==
  /\ lastStep = "baixarDocumentoNull"
  /\ pc = "jaBaixado"
  /\ det.ei = 2

C33_RecessoSemPendencias ==
  [][ (pc = "finally" /\ lastReturn' = "true" /\ recessoTimeout' = "pending")
        => \A c \in Cnjs(ciclo.processosEproc) : dbEventos[c] # <<>>
    ]_vars

\* C34: once a shutdown request has been received no cycle starts and no
\* cron task or dormant timer is installed, also when the cycle that was
\* active at the request returns to its caller.
C34_NadaAposEncerramento ==
  [][ shutdown =>
        /\ nCiclos' = nCiclos
        /\ cronTasks' <= cronTasks
        /\ recessoTimers' <= recessoTimers
    ]_vars

\* C35: at most one cron task and at most one dormant timer exist, and
\* never both at the same time.
C35_UmGatilhoArmado ==
  /\ cronTasks <= 1
  /\ recessoTimers <= 1
  /\ cronTasks + recessoTimers <= 1

\* A cycle started by the cron task has returned true and the dormant
\* timer is the only trigger.
C35_RecessoAposCron ==
  /\ lastStep = "retornar"
  /\ lastReturn = "true"
  /\ nCiclos >= 2
  /\ scheduledTask = "null"
  /\ cronTasks = 0
  /\ recessoTimers = 1

\* C36: on an unchanged list, with cycles that keep being triggered,
\* every listed case without stored events is eventually among the cases
\* a cycle selects for detail extraction.
C36_TodoCandidatoSelecionado ==
  \A c \in Processos :
    (c \in Cnjs(ciclo.processosEproc) /\ dbEventos[c] = <<>>)
      ~> (c \in Cnjs(ciclo.ordenados))

\* The storage paths of the attachments processarDocumentosProcesso
\* downloads for case c.
CaminhosDe(c) ==
  LET rel == IdentificarEventosComDocumentos(paginas[c])
  IN UNION {{GerarStoragePath(c, OuZero(rel[i].num), ComPdf(rel[i].docs[k])) :
               k \in 1..Len(rel[i].docs)} : i \in 1..Len(rel)}

\* C37: a case is in the skip-set only when it was fully processed: every
\* listed case the detail pass skips has had its attachments downloaded,
\* so that a case whose extraction stopped after its events were stored
\* is extracted again by a later cycle.
C37_SkipSetSoDeCompletos ==
  pc = "extrairDetalhes" =>
    \A c \in ciclo.processosComEventos \cap Cnjs(ciclo.processosEproc) :
      CaminhosDe(c) \subseteq baixados

\* C38: the events whose attachments processarDocumentosProcesso
\* downloads are among the events the same extraction persisted for the
\* case.
C38_DocumentosDeEventosPersistidos ==
  lastStep = "processarDocumentosProcesso" =>
    \A k \in 1..Len(det.eventosDocs) :
      det.eventosDocs[k].num \in Elems(dbEventos[det.cnj])

\* C39: a stored case is deleted only when the list of the portal was
\* loaded and does not hold it: a case that the portal lists is never
\* deleted, also when the wait for the table timed out.
C39_SoApagaForaDaLista ==
  [][(dbProcessos \ dbProcessos') \cap portal = {}]_vars

\* The attachments of the download loop: event index and attachment index.
Anexos ==
  {<<i, k>> \in (1..Len(det.eventosDocs)) \X (1..2) :
     k <= Len(det.eventosDocs[i].docs)}

CaminhoDoAnexo(a) ==
  GerarStoragePath(det.cnj, OuZero(det.eventosDocs[a[1]].num),
                   ComPdf(det.eventosDocs[a[1]].docs[a[2]]))

\* C40: two attachments of a case that differ in the event number or in
\* the display name get different storage paths, and on a store without
\* document rows the already-downloaded check skips no attachment that
\* was not stored itself.
C40_CaminhoIdentificaAnexo ==
  /\ [](\A a \in Anexos, b \in Anexos :
          (\/ det.eventosDocs[a[1]].num # det.eventosDocs[b[1]].num
           \/ det.eventosDocs[a[1]].docs[a[2]] # det.eventosDocs[b[1]].docs[b[2]])
            => CaminhoDoAnexo(a) # CaminhoDoAnexo(b))
  /\ [][(lastStep' = "documentoJaBaixado" /\ pc' # "baixar")
          => \A a \in Anexos :
               CaminhoDoAnexo(a) = PathAtual =>
                 /\ det.eventosDocs[a[1]].num = EventoAtual.num
                 /\ det.eventosDocs[a[1]].docs[a[2]] = EventoAtual.docs[det.di]
       ]_vars

====
